---------------------------- MODULE Spec2Model ----------------------------
(***************************************************************************)
(* Marketplace content generation: the rule catalog, the fact validator,   *)
(* the template renderer, the keyword extractor, the per-marketplace       *)
(* generator and the batch generator of services/marketplace_service.py,   *)
(* and the wizard of app.py / components/layout.py that drives them.        *)
(*                                                                         *)
(* A Python str is a sequence of characters, each character a one-letter   *)
(* TLA+ string ("\n" is the newline, "U+2022" the code point of that       *)
(* number).  Fixed message texts that the program only concatenates and    *)
(* never measures are kept as one element.  A Python value that may be     *)
(* None is <<>> for None and <<v>> for the value v; a str field that is    *)
(* None is NoneStr, which is no sequence of characters.  A dict whose      *)
(* order matters (specifications) is a sequence of <<key, value>> pairs.   *)
(***************************************************************************)
EXTENDS Integers, Sequences, FiniteSets, TLC

VARIABLES
    hash_seed,          \* the interpreter's str hash seed, fixed at start-up
    product_info,       \* the fact set handed to the service
    last_call,          \* which service entry point has run
    marketplace_keys,   \* the key, or the key list, handed to the service
    call_result,        \* what the last call returned or raised
    earlier_result,     \* what the call before the last returned or raised
    catalog,            \* MarketplaceService.MARKETPLACE_TEMPLATES, a class attribute
    shares,             \* per outcome: the objects it holds by reference
    session,            \* st.session_state of the wizard
    rerun_pending,      \* st.rerun() was called: the script runs again at once
    backend,            \* what self.chain.invoke of a chain does when called: one
                        \* behaviour, or one per call in the order of the calls
    prompts,            \* the guidelines of the prompts handed to self.chain.invoke
    ui                  \* what the last generate_descriptions run showed and returned

vars == <<hash_seed, product_info, last_call, marketplace_keys, call_result,
          earlier_result, catalog, shares, session, rerun_pending, backend,
          prompts, ui>>

-----------------------------------------------------------------------------
(* Python built-ins used by the code *)

NoneValue == <<>>

Some(v) == <<v>>

\* bool(x) of an Optional[number]: None and 0 are falsy
TruthyNumber(x) == x # NoneValue /\ x[1] # 0

\* bool(x) of a str, list or dict: empty is falsy
TruthyContainer(x) == x # <<>>

\* None where a str is expected
NoneStr == <<"None">>

\* bool(x) of a str or None
TruthyStr(x) == x # <<>> /\ x # NoneStr

\* str(x) of a str or None, as str.format renders it
Str(x) == IF x = NoneStr THEN <<"N", "o", "n", "e">> ELSE x

\* d.get(k, default)
Get(d, k, default) == IF k \in DOMAIN d THEN d[k] ELSE default

Min(a, b) == IF a < b THEN a ELSE b

Max(a, b) == IF a > b THEN a ELSE b

\* xs[:n], also for negative n
SliceTo(xs, n) ==
    IF n >= 0 THEN SubSeq(xs, 1, Min(n, Len(xs)))
    ELSE SubSeq(xs, 1, Max(Len(xs) + n, 0))

RECURSIVE Join(_, _)
\* sep.join(xs)
Join(sep, xs) ==
    IF xs = <<>> THEN <<>>
    ELSE IF Len(xs) = 1 THEN xs[1]
    ELSE xs[1] \o sep \o Join(sep, Tail(xs))

IsSpace(c) == c \in {" ", "\n", "\t"}

\* s.strip()
Strip(s) ==
    LET inked == {i \in DOMAIN s : ~IsSpace(s[i])}
    IN  IF inked = {} THEN <<>>
        ELSE SubSeq(s, CHOOSE i \in inked : \A j \in inked : i <= j,
                       CHOOSE i \in inked : \A j \in inked : i >= j)

UpperCase == <<"A", "B", "C", "D", "E", "F", "G", "H", "I", "J", "K", "L", "M",
               "N", "O", "P", "Q", "R", "S", "T", "U", "V", "W", "X", "Y", "Z">>

LowerCase == <<"a", "b", "c", "d", "e", "f", "g", "h", "i", "j", "k", "l", "m",
               "n", "o", "p", "q", "r", "s", "t", "u", "v", "w", "x", "y", "z">>

LowerChar(c) ==
    IF \E i \in 1..Len(UpperCase) : UpperCase[i] = c
    THEN LowerCase[CHOOSE i \in 1..Len(UpperCase) : UpperCase[i] = c]
    ELSE c

\* s.lower()
Lower(s) == [i \in 1..Len(s) |-> LowerChar(s[i])]

\* s.split(): the maximal runs of non-whitespace characters, left to right
Split(s) ==
    LET IsStart(i) == ~IsSpace(s[i]) /\ (i = 1 \/ IsSpace(s[i - 1]))
        IsEnd(i) == ~IsSpace(s[i]) /\ (i = Len(s) \/ IsSpace(s[i + 1]))
        positions == [i \in 1..Len(s) |-> i]
        starts == SelectSeq(positions, IsStart)
        ends == SelectSeq(positions, IsEnd)
    IN  [k \in 1..Len(starts) |-> SubSeq(s, starts[k], ends[k])]

Range(xs) == {xs[i] : i \in DOMAIN xs}

\* d[k] = v on a dict
Put(d, k, v) == [j \in DOMAIN d \cup {k} |-> IF j = k THEN v ELSE d[j]]

EmptyDict == [k \in {} |-> TRUE]

-----------------------------------------------------------------------------
(* Templates and str.format *)

Lit(text) == [kind |-> "lit", text |-> text]

Var(name) == [kind |-> "var", text |-> name]

\* the placeholders a template references
Placeholders(tpl) == {tpl[i].text : i \in {j \in DOMAIN tpl : tpl[j].kind = "var"}}

RECURSIVE Substitute(_, _)
Substitute(tpl, tvars) ==
    IF tpl = <<>> THEN <<>>
    ELSE (IF Head(tpl).kind = "lit" THEN Head(tpl).text ELSE Str(tvars[Head(tpl).text]))
         \o Substitute(Tail(tpl), tvars)

\* tpl.format with the keyword arguments tvars: the text, or KeyError on the first placeholder
\* that tvars does not hold
Format(tpl, tvars) ==
    LET missing == {i \in DOMAIN tpl : tpl[i].kind = "var" /\ tpl[i].text \notin DOMAIN tvars}
    IN  IF missing = {}
        THEN [raised |-> FALSE, text |-> Substitute(tpl, tvars)]
        ELSE [raised |-> TRUE,
              key |-> tpl[CHOOSE i \in missing : \A j \in missing : i <= j].text]

-----------------------------------------------------------------------------
(* Rule catalog *)

\* amazon_in: marketplace_service.py lines 21-32
AmazonInRule ==
    [name |-> <<"A", "m", "a", "z", "o", "n", " ", "I", "n", "d", "i", "a">>,
     title |->
       <<Var("brand"),
         Lit(<<" ">>),
         Var("product_name"),
         Lit(<<" ", "-", " ">>),
         Var("key_features")>>,
     description |->
       <<Lit(<<"*", "*">>),
         Var("brand"),
         Lit(<<" ">>),
         Var("product_name"),
         Lit(<<"*", "*", "\n", "\n">>),
         Var("product_description"),
         Lit(<<"\n", "\n", "*", "*", "K", "e", "y", " ", "F", "e", "a", "t", "u", "r", "e", "s", ":", "*", "*", "\n">>),
         Var("features"),
         Lit(<<"\n", "\n", "*", "*", "S", "p", "e", "c", "i", "f", "i", "c", "a", "t", "i", "o", "n", "s", ":", "*", "*", "\n">>),
         Var("specifications"),
         Lit(<<"\n", "\n", "*", "*", "W", "h", "y", " ", "C", "h", "o", "o", "s", "e", " ">>),
         Var("brand"),
         Lit(<<"?", "*", "*", "\n">>),
         Var("usps"),
         Lit(<<"\n", "\n">>),
         Var("additional_notes")>>,
     max_title_length |-> 200,
     max_bullets |-> <<5>>,
     requires_technical_specs |-> TRUE,
     allows_html |-> TRUE,
     requires_brand |-> TRUE,
     requires_price |-> TRUE,
     requires_category |-> TRUE]

\* flipkart: marketplace_service.py lines 35-46
FlipkartRule ==
    [name |-> <<"F", "l", "i", "p", "k", "a", "r", "t">>,
     title |->
       <<Var("brand"),
         Lit(<<" ">>),
         Var("product_name"),
         Lit(<<" ", "(">>),
         Var("key_features"),
         Lit(<<")">>)>>,
     description |->
       <<Var("product_description"),
         Lit(<<"\n", "\n", "U+2022", " ">>),
         Var("features_bullets"),
         Lit(<<"\n", "\n", "*", "*", "S", "p", "e", "c", "i", "f", "i", "c", "a", "t", "i", "o", "n", "s", ":", "*", "*", "\n">>),
         Var("specifications"),
         Lit(<<"\n", "\n">>),
         Var("usps_bullets"),
         Lit(<<"\n", "\n">>),
         Var("additional_notes")>>,
     max_title_length |-> 100,
     max_bullets |-> NoneValue,
     requires_technical_specs |-> TRUE,
     allows_html |-> FALSE,
     requires_brand |-> TRUE,
     requires_price |-> TRUE,
     requires_category |-> TRUE]

\* meesho: marketplace_service.py lines 49-60
MeeshoRule ==
    [name |-> <<"M", "e", "e", "s", "h", "o">>,
     title |->
       <<Var("brand"),
         Lit(<<" ">>),
         Var("product_name")>>,
     description |->
       <<Var("product_description"),
         Lit(<<"\n", "\n">>),
         Var("features_bullets"),
         Lit(<<"\n", "\n">>),
         Var("usps_bullets")>>,
     max_title_length |-> 60,
     max_bullets |-> <<3>>,
     requires_technical_specs |-> FALSE,
     allows_html |-> FALSE,
     requires_brand |-> FALSE,
     requires_price |-> TRUE,
     requires_category |-> TRUE]

\* myntra: marketplace_service.py lines 63-74
MyntraRule ==
    [name |-> <<"M", "y", "n", "t", "r", "a">>,
     title |->
       <<Var("brand"),
         Lit(<<" ">>),
         Var("product_name"),
         Lit(<<" ", "|", " ">>),
         Var("key_features")>>,
     description |->
       <<Var("brand"),
         Lit(<<" ", "p", "r", "e", "s", "e", "n", "t", "s", " ">>),
         Var("product_name"),
         Lit(<<" ", "-", " ">>),
         Var("key_features"),
         Lit(<<"\n", "\n">>),
         Var("product_description"),
         Lit(<<"\n", "\n", "*", "*", "F", "e", "a", "t", "u", "r", "e", "s", ":", "*", "*", "\n">>),
         Var("features"),
         Lit(<<"\n", "\n", "*", "*", "S", "p", "e", "c", "i", "f", "i", "c", "a", "t", "i", "o", "n", "s", ":", "*", "*", "\n">>),
         Var("specifications"),
         Lit(<<"\n", "\n">>),
         Var("usps_bullets")>>,
     max_title_length |-> 80,
     max_bullets |-> <<4>>,
     requires_technical_specs |-> TRUE,
     allows_html |-> TRUE,
     requires_brand |-> TRUE,
     requires_price |-> TRUE,
     requires_category |-> TRUE]

\* ajio: marketplace_service.py lines 77-88
AjioRule ==
    [name |-> <<"A", "j", "i", "o">>,
     title |->
       <<Var("brand"),
         Lit(<<" ">>),
         Var("product_name")>>,
     description |->
       <<Var("product_description"),
         Lit(<<"\n", "\n", "*", "*", "K", "e", "y", " ", "F", "e", "a", "t", "u", "r", "e", "s", ":", "*", "*", "\n">>),
         Var("features"),
         Lit(<<"\n", "\n", "*", "*", "M", "a", "t", "e", "r", "i", "a", "l", " ", "&", " ", "C", "a", "r", "e", ":", "*", "*", "\n">>),
         Var("material_care"),
         Lit(<<"\n", "\n">>),
         Var("usps_bullets")>>,
     max_title_length |-> 70,
     max_bullets |-> <<5>>,
     requires_technical_specs |-> FALSE,
     allows_html |-> TRUE,
     requires_brand |-> TRUE,
     requires_price |-> TRUE,
     requires_category |-> TRUE]

\* nykaa: marketplace_service.py lines 91-102
NykaaRule ==
    [name |-> <<"N", "y", "k", "a", "a">>,
     title |->
       <<Var("brand"),
         Lit(<<" ">>),
         Var("product_name"),
         Lit(<<" ", "-", " ">>),
         Var("key_features")>>,
     description |->
       <<Lit(<<"*", "*">>),
         Var("brand"),
         Lit(<<" ">>),
         Var("product_name"),
         Lit(<<"*", "*", "\n", "\n">>),
         Var("product_description"),
         Lit(<<"\n", "\n", "*", "*", "K", "e", "y", " ", "B", "e", "n", "e", "f", "i", "t", "s", ":", "*", "*", "\n">>),
         Var("features"),
         Lit(<<"\n", "\n", "*", "*", "H", "o", "w", " ", "T", "o", " ", "U", "s", "e", ":", "*", "*", "\n">>),
         Var("usage_instructions"),
         Lit(<<"\n", "\n", "*", "*", "I", "n", "g", "r", "e", "d", "i", "e", "n", "t", "s", ":", "*", "*", "\n">>),
         Var("ingredients"),
         Lit(<<"\n", "\n">>),
         Var("usps_bullets")>>,
     max_title_length |-> 120,
     max_bullets |-> <<5>>,
     requires_technical_specs |-> FALSE,
     allows_html |-> TRUE,
     requires_brand |-> TRUE,
     requires_price |-> TRUE,
     requires_category |-> TRUE]

\* shopify: marketplace_service.py lines 105-116
ShopifyRule ==
    [name |-> <<"S", "h", "o", "p", "i", "f", "y">>,
     title |->
       <<Var("product_name"),
         Lit(<<" ", "b", "y", " ">>),
         Var("brand")>>,
     description |->
       <<Lit(<<"#", " ">>),
         Var("product_name"),
         Lit(<<"\n", "\n">>),
         Var("product_description"),
         Lit(<<"\n", "\n", "#", "#", " ", "F", "e", "a", "t", "u", "r", "e", "s", "\n">>),
         Var("features"),
         Lit(<<"\n", "\n", "#", "#", " ", "S", "p", "e", "c", "i", "f", "i", "c", "a", "t", "i", "o", "n", "s", "\n">>),
         Var("specifications"),
         Lit(<<"\n", "\n", "#", "#", " ", "W", "h", "y", " ", "C", "h", "o", "o", "s", "e", " ", "T", "h", "i", "s", " ", "P", "r", "o", "d", "u", "c", "t", "?", "\n">>),
         Var("usps")>>,
     max_title_length |-> 255,
     max_bullets |-> NoneValue,
     requires_technical_specs |-> FALSE,
     allows_html |-> TRUE,
     requires_brand |-> FALSE,
     requires_price |-> TRUE,
     requires_category |-> FALSE]

\* etsy: marketplace_service.py lines 119-130
EtsyRule ==
    [name |-> <<"E", "t", "s", "y">>,
     title |->
       <<Var("product_name"),
         Lit(<<" ", "-", " ", "H", "a", "n", "d", "m", "a", "d", "e", " ", "b", "y", " ">>),
         Var("brand")>>,
     description |->
       <<Var("product_description"),
         Lit(<<"\n", "\n", "U+2728", " ", "*", "*", "F", "e", "a", "t", "u", "r", "e", "s", ":", "*", "*", "\n">>),
         Var("features"),
         Lit(<<"\n", "\n", "U+1F4CF", " ", "*", "*", "D", "e", "t", "a", "i", "l", "s", ":", "*", "*", "\n">>),
         Var("specifications"),
         Lit(<<"\n", "\n", "U+1F496", " ">>),
         Var("usps_bullets"),
         Lit(<<"\n", "\n">>),
         Var("additional_notes")>>,
     max_title_length |-> 140,
     max_bullets |-> <<5>>,
     requires_technical_specs |-> FALSE,
     allows_html |-> TRUE,
     requires_brand |-> FALSE,
     requires_price |-> TRUE,
     requires_category |-> TRUE]

\* the catalog with a placeholder in the title template of the shopify rule
\* that _process_template_variables does not produce
TemplatesWithColorInTitle ==
    [k \in {"amazon_in", "flipkart", "meesho", "myntra", "ajio", "nykaa",
            "shopify", "etsy"} |->
        CASE k = "amazon_in" -> AmazonInRule
          [] k = "flipkart" -> FlipkartRule
          [] k = "meesho" -> MeeshoRule
          [] k = "myntra" -> MyntraRule
          [] k = "ajio" -> AjioRule
          [] k = "nykaa" -> NykaaRule
          [] k = "shopify" ->
                [ShopifyRule EXCEPT !.title = @ \o <<Lit(<<" ">>), Var("color")>>]
          [] k = "etsy" -> EtsyRule]

MARKETPLACE_TEMPLATES ==
    ("amazon_in" :> AmazonInRule) @@
    ("flipkart" :> FlipkartRule) @@
    ("meesho" :> MeeshoRule) @@
    ("myntra" :> MyntraRule) @@
    ("ajio" :> AjioRule) @@
    ("nykaa" :> NykaaRule) @@
    ("shopify" :> ShopifyRule) @@
    ("etsy" :> EtsyRule)

CatalogKeys == DOMAIN MARKETPLACE_TEMPLATES

-----------------------------------------------------------------------------
(* MarketplaceService *)

Bullet == "U+2022"

\* _format_features
FormatFeatures(features, max_items) ==
    IF ~TruthyContainer(features) THEN <<>>
    ELSE LET shown == IF TruthyNumber(max_items) /\ Len(features) > max_items[1]
                      THEN SliceTo(features, max_items[1])
                      ELSE features
         IN  <<Bullet, " ">> \o Join(<<"\n", Bullet, " ">>, shown)

\* one "- key: value" line of _format_specifications
FormatSpecLine(pair) ==
    LET value == IF pair[2].kind = "list" THEN Join(<<",", " ">>, pair[2].val)
                 ELSE pair[2].val
    IN  <<"-", " ">> \o pair[1] \o <<":", " ">> \o value

\* _format_specifications
FormatSpecifications(specs) ==
    IF ~TruthyContainer(specs) THEN <<>>
    ELSE Join(<<"\n">>, [i \in DOMAIN specs |-> FormatSpecLine(specs[i])])

ErrBrand == "Brand name is required for this marketplace"
ErrPrice == "Price is required for this marketplace"
ErrCategory == "Category is required for this marketplace"
ErrName == "Product name is required"
ErrDescription == "Product description is required"
ErrFeatures == "At least one feature is required"

\* errors.append(msg) if cond
AppendIf(errors, cond, msg) == IF cond THEN Append(errors, msg) ELSE errors

\* _validate_product_info without the description check of lines 199-200
ValidateWithoutDescriptionCheck(info, template) ==
    LET basic_info == info.basic_info
        e1 == AppendIf(<<>>, template.requires_brand
                             /\ ~TruthyStr(Get(basic_info, "brand_name", <<>>)),
                       ErrBrand)
        e2 == AppendIf(e1, template.requires_price
                           /\ ~TruthyNumber(Get(basic_info, "price", NoneValue)),
                       ErrPrice)
        e3 == AppendIf(e2, template.requires_category
                           /\ ~TruthyContainer(Get(basic_info, "category", <<>>)),
                       ErrCategory)
        e4 == AppendIf(e3, ~TruthyContainer(Get(basic_info, "product_name", <<>>)),
                       ErrName)
        e6 == AppendIf(e4, ~TruthyContainer(info.features), ErrFeatures)
    IN  e6

\* _validate_product_info with the always-required checks made first
ValidateRequiredFirst(info, template) ==
    LET basic_info == info.basic_info
        e1 == AppendIf(<<>>, ~TruthyContainer(Get(basic_info, "product_name", <<>>)),
                       ErrName)
        e2 == AppendIf(e1, ~TruthyContainer(Get(basic_info, "description", <<>>)),
                       ErrDescription)
        e3 == AppendIf(e2, ~TruthyContainer(info.features), ErrFeatures)
        e4 == AppendIf(e3, template.requires_brand
                           /\ ~TruthyStr(Get(basic_info, "brand_name", <<>>)),
                       ErrBrand)
        e5 == AppendIf(e4, template.requires_price
                           /\ ~TruthyNumber(Get(basic_info, "price", NoneValue)),
                       ErrPrice)
        e6 == AppendIf(e5, template.requires_category
                           /\ ~TruthyContainer(Get(basic_info, "category", <<>>)),
                       ErrCategory)
    IN  e6

\* _validate_product_info
ValidateProductInfo(info, template) ==
    LET basic_info == info.basic_info
        e1 == AppendIf(<<>>, template.requires_brand
                             /\ ~TruthyStr(Get(basic_info, "brand_name", <<>>)),
                       ErrBrand)
        e2 == AppendIf(e1, template.requires_price
                           /\ ~TruthyNumber(Get(basic_info, "price", NoneValue)),
                       ErrPrice)
        e3 == AppendIf(e2, template.requires_category
                           /\ ~TruthyContainer(Get(basic_info, "category", <<>>)),
                       ErrCategory)
        e4 == AppendIf(e3, ~TruthyContainer(Get(basic_info, "product_name", <<>>)),
                       ErrName)
        e5 == AppendIf(e4, ~TruthyContainer(Get(basic_info, "description", <<>>)),
                       ErrDescription)
        e6 == AppendIf(e5, ~TruthyContainer(info.features), ErrFeatures)
    IN  e6

DefaultMaterialCare ==
    <<"N", "o", "t", " ", "s", "p", "e", "c", "i", "f", "i", "e", "d">>
DefaultUsage ==
    <<"R", "e", "f", "e", "r", " ", "t", "o", " ", "p", "r", "o", "d", "u",
      "c", "t", " ", "p", "a", "c", "k", "a", "g", "i", "n", "g", " ", "f",
      "o", "r", " ", "u", "s", "a", "g", "e", " ", "i", "n", "s", "t", "r",
      "u", "c", "t", "i", "o", "n", "s">>
DefaultIngredients ==
    <<"R", "e", "f", "e", "r", " ", "t", "o", " ", "p", "r", "o", "d", "u",
      "c", "t", " ", "p", "a", "c", "k", "a", "g", "i", "n", "g", " ", "f",
      "o", "r", " ", "f", "u", "l", "l", " ", "i", "n", "g", "r", "e", "d",
      "i", "e", "n", "t", " ", "l", "i", "s", "t">>

\* the variables without the defaults of the optional fields: a field
\* that the fact set does not have gives no variable
ProcessTemplateVariablesWithoutDefaults(info, template) ==
    LET basic_info == info.basic_info
        features == info.features
        usps == info.usps
        optional == {"material_care", "usage_instructions", "ingredients"}
        all ==
        [brand |-> Get(basic_info, "brand_name", <<>>),
         product_name |-> Get(basic_info, "product_name", <<>>),
         key_features |-> IF TruthyContainer(features)
                          THEN Join(<<",", " ">>, SliceTo(features, 3))
                          ELSE <<>>,
         product_description |-> Get(basic_info, "description", <<>>),
         features |-> FormatFeatures(features, NoneValue),
         features_bullets |-> FormatFeatures(features, template.max_bullets),
         usps |-> IF TruthyContainer(usps) THEN Join(<<"\n">>, usps) ELSE <<>>,
         usps_bullets |-> FormatFeatures(usps, Some(3)),
         specifications |-> FormatSpecifications(info.specifications),
         additional_notes |-> Get(basic_info, "additional_notes", <<>>),
         material_care |-> Get(basic_info, "material_care", DefaultMaterialCare),
         usage_instructions |-> Get(basic_info, "usage_instructions", DefaultUsage),
         ingredients |-> Get(basic_info, "ingredients", DefaultIngredients)]
    IN  [k \in DOMAIN all \ (optional \ DOMAIN basic_info) |-> all[k]]

\* _process_template_variables
ProcessTemplateVariables(info, template) ==
    LET basic_info == info.basic_info
        features == info.features
        usps == info.usps
    IN  [brand |-> Get(basic_info, "brand_name", <<>>),
         product_name |-> Get(basic_info, "product_name", <<>>),
         key_features |-> IF TruthyContainer(features)
                          THEN Join(<<",", " ">>, SliceTo(features, 3))
                          ELSE <<>>,
         product_description |-> Get(basic_info, "description", <<>>),
         features |-> FormatFeatures(features, NoneValue),
         features_bullets |-> FormatFeatures(features, template.max_bullets),
         usps |-> IF TruthyContainer(usps) THEN Join(<<"\n">>, usps) ELSE <<>>,
         usps_bullets |-> FormatFeatures(usps, Some(3)),
         specifications |-> FormatSpecifications(info.specifications),
         additional_notes |-> Get(basic_info, "additional_notes", <<>>),
         material_care |-> Get(basic_info, "material_care", DefaultMaterialCare),
         usage_instructions |-> Get(basic_info, "usage_instructions", DefaultUsage),
         ingredients |-> Get(basic_info, "ingredients", DefaultIngredients)]

GenericTerms ==
    {<<"b", "u", "y">>, <<"s", "a", "l", "e">>,
     <<"d", "i", "s", "c", "o", "u", "n", "t">>,
     <<"b", "e", "s", "t", " ", "p", "r", "i", "c", "e">>,
     <<"o", "n", "l", "i", "n", "e">>}

RECURSIVE WordsOfAll(_)
\* the words of every feature: the loop of lines 340-341
WordsOfAll(features) ==
    IF features = <<>> THEN {}
    ELSE Range(Split(Lower(Head(features)))) \cup WordsOfAll(Tail(features))

RECURSIVE SetToSeq(_)
SetToSeq(S) ==
    IF S = {} THEN <<>>
    ELSE LET x == CHOOSE y \in S : TRUE IN <<x>> \o SetToSeq(S \ {x})

Reverse(xs) == [i \in 1..Len(xs) |-> xs[Len(xs) + 1 - i]]

Rotate(xs, n) ==
    IF xs = <<>> THEN xs
    ELSE [i \in 1..Len(xs) |-> xs[((i - 1 + n) % Len(xs)) + 1]]

\* The order in which a set of str is iterated.  It is fixed by the hash
\* seed of the process and otherwise unspecified: seed 0 is one order, seed 1
\* its reverse, a larger seed a rotation of it.
SetIteration(S, seed) ==
    IF seed = 0 THEN SetToSeq(S)
    ELSE IF seed = 1 THEN Reverse(SetToSeq(S))
    ELSE Rotate(SetToSeq(S), seed - 1)

RECURSIVE CleanUp(_)
\* [k.strip() for k in keywords if len(k) > 2 and k.strip()]
CleanUp(ks) ==
    IF ks = <<>> THEN <<>>
    ELSE (IF Len(Head(ks)) > 2 /\ TruthyContainer(Strip(Head(ks)))
          THEN <<Strip(Head(ks))>> ELSE <<>>) \o CleanUp(Tail(ks))

\* _generate_keywords
GenerateKeywords(product_name, brand, category, features, seed) ==
    LET k1 == Range(Split(Lower(product_name)))
        k2 == k1 \cup {Lower(brand)}
        k3 == IF TruthyContainer(category)
              THEN k2 \cup Range(Split(Lower(category))) ELSE k2
        k4 == k3 \cup WordsOfAll(features)
        k5 == k4 \cup GenericTerms
    IN  SliceTo(CleanUp(SetIteration(k5, seed)), 20)

\* a call of _generate_keywords: brand.lower() of line 333 raises
\* AttributeError when the brand is None
GenerateKeywordsCall(product_name, brand, category, features, seed) ==
    IF brand = NoneStr
    THEN [raised |-> TRUE,
          value |-> <<"'NoneType' object has no attribute 'lower'">>]
    ELSE [raised |-> FALSE,
          value |-> GenerateKeywords(product_name, brand, category, features, seed)]

\* the keywords call without the try around it
UnguardedKeywords(call) == call

\* lines 285-294: an exception of the keywords call gives the empty list
GuardedKeywords(call) ==
    IF call.raised THEN [raised |-> FALSE, value |-> <<>>] ELSE call

\* the title cut at max_title_length, the dots added after it
TruncateTitleAtLimit(title, template) ==
    IF Len(title) > template.max_title_length
    THEN SliceTo(title, template.max_title_length) \o <<".", ".", ".">>
    ELSE title

\* the title of lines 266-269, given the substituted template
TruncateTitle(title, template) ==
    IF Len(title) > template.max_title_length
    THEN SliceTo(title, template.max_title_length - 3) \o <<".", ".", ".">>
    ELSE title

\* bullet_points of lines 280-282
BulletPoints(info, template) ==
    IF TruthyNumber(template.max_bullets) /\ TruthyContainer(info.features)
    THEN SliceTo(info.features, template.max_bullets[1])
    ELSE <<>>

\* "specifications" handed over whatever the rule says
ResultSpecificationsAlways(info, template) == info.specifications

\* "specifications" of line 305
ResultSpecifications(info, template) ==
    IF template.requires_technical_specs THEN info.specifications ELSE <<>>

Returned(v) == [raised |-> FALSE, value |-> v]

\* the return of line 252
NoTemplate(marketplace_key) ==
    Returned([success |-> FALSE,
              error |-> <<"No template found for marketplace: ", marketplace_key>>])

\* the handler of lines 312-320
UnexpectedError(marketplace_key, template, what) ==
    Returned([success |-> FALSE,
              error |-> <<"Unexpected error generating content for ",
                          marketplace_key, ": ", what>>,
              marketplace |-> marketplace_key,
              marketplace_name |-> template.name])

\* a validation failure that reports the first error only
ValidationFailureFirstOnly(validation_errors) ==
    Returned([success |-> FALSE,
              error |-> <<"Validation failed: ", validation_errors[1]>>,
              validation_errors |-> SubSeq(validation_errors, 1, 1)])

\* lines 256-260: the failure for a non-empty list of validation errors
ValidationFailure(validation_errors) ==
    Returned([success |-> FALSE,
              error |-> <<"Validation failed: ">>
                        \o Join(<<"; ">>, [i \in DOMAIN validation_errors |->
                                             <<validation_errors[i]>>]),
              validation_errors |-> validation_errors])

\* lines 284-310: from the keywords call on, title and description being
\* rendered; an exception of the keywords call that the try around it let
\* through would reach the outer handler
FromKeywordsOn(info, marketplace_key, template, title, description, keywords) ==
    IF keywords.raised
    THEN UnexpectedError(marketplace_key, template, keywords.value)
    ELSE Returned([success |-> TRUE,
                   marketplace |-> marketplace_key,
                   marketplace_name |-> template.name,
                   title |-> TruncateTitle(title, template),
                   description |-> description,
                   bullet_points |-> BulletPoints(info, template),
                   keywords |-> keywords.value,
                   specifications |-> ResultSpecifications(info, template),
                   template |-> template])

\* lines 254-310: the body of the try, for a key that has a template
GenerateWithTemplate(info, marketplace_key, template, seed) ==
    LET validation_errors == ValidateProductInfo(info, template)
        template_vars == ProcessTemplateVariables(info, template)
        title == Format(template.title, template_vars)
        description == Format(template.description, template_vars)
    IN  IF TruthyContainer(validation_errors)
        THEN ValidationFailure(validation_errors)
        ELSE IF title.raised
        THEN UnexpectedError(marketplace_key, template, <<"'", title.key, "'">>)
        ELSE IF description.raised
        THEN Returned([success |-> FALSE,
                       error |-> <<"Missing required template variable: ",
                                   "'", description.key, "'">>])
        ELSE FromKeywordsOn(info, marketplace_key, template, title.text,
                            description.text,
                            GuardedKeywords(GenerateKeywordsCall(
                                                template_vars.product_name,
                                                template_vars.brand,
                                                Get(info.basic_info, "category", <<>>),
                                                info.features, seed)))

\* a lookup that falls back to a rule for a key it does not know
LookupTemplateWithDefault(marketplace_key) ==
    IF marketplace_key \in DOMAIN MARKETPLACE_TEMPLATES
    THEN Some(MARKETPLACE_TEMPLATES[marketplace_key])
    ELSE Some(MARKETPLACE_TEMPLATES["shopify"])

\* self.MARKETPLACE_TEMPLATES.get(marketplace_key), None being <<>>
LookupTemplate(marketplace_key) ==
    IF marketplace_key \in DOMAIN MARKETPLACE_TEMPLATES
    THEN Some(MARKETPLACE_TEMPLATES[marketplace_key])
    ELSE NoneValue

\* generate_marketplace_content
GenerateMarketplaceContent(info, marketplace_key, seed) ==
    LET template == LookupTemplate(marketplace_key)
    IN  IF template = NoneValue
        THEN NoTemplate(marketplace_key)
        ELSE GenerateWithTemplate(info, marketplace_key, template[1], seed)

RECURSIVE GenerateLoopStoppingAtFailure(_, _, _, _)
\* the loop, left at the first marketplace that fails
GenerateLoopStoppingAtFailure(info, keys, seed, results) ==
    IF keys = <<>> THEN Returned(results)
    ELSE LET result == GenerateMarketplaceContent(info, Head(keys), seed)
         IN  IF result.raised THEN result
             ELSE IF ~result.value.success
             THEN Returned(Put(results, Head(keys), result.value))
             ELSE GenerateLoopStoppingAtFailure(info, Tail(keys), seed,
                                                Put(results, Head(keys), result.value))

RECURSIVE GenerateLoop(_, _, _, _)
\* the loop of lines 367-369 over the keys left, results being the dict so
\* far; an exception leaving generate_marketplace_content leaves the loop
GenerateLoop(info, keys, seed, results) ==
    IF keys = <<>> THEN Returned(results)
    ELSE LET result == GenerateMarketplaceContent(info, Head(keys), seed)
         IN  IF result.raised THEN result
             ELSE GenerateLoop(info, Tail(keys), seed,
                               Put(results, Head(keys), result.value))

\* the batch result flagged successful only if every marketplace succeeded
GenerateAllFlaggingFailures(info, keys, seed) ==
    LET loop == GenerateLoop(info, keys, seed, EmptyDict)
    IN  IF loop.raised THEN loop
        ELSE Returned([success |-> \A k \in DOMAIN loop.value : loop.value[k].success,
                       results |-> loop.value])

\* the batch result flagged successful only if some marketplace succeeded
GenerateAllFlaggingNoSuccess(info, keys, seed) ==
    LET loop == GenerateLoop(info, keys, seed, EmptyDict)
    IN  IF loop.raised THEN loop
        ELSE Returned([success |-> \E k \in DOMAIN loop.value : loop.value[k].success,
                       results |-> loop.value])

\* generate_all_marketplace_content
GenerateAllMarketplaceContent(info, keys, seed) ==
    LET loop == GenerateLoop(info, keys, seed, EmptyDict)
    IN  IF loop.raised THEN loop
        ELSE Returned([success |-> TRUE, results |-> loop.value])

-----------------------------------------------------------------------------
(* Inputs *)

MaxHashSeed == 1
ShortNameLen == 5
LongNameLen == 260
MaxFeatures == 6
MaxBatchKeys == 3

HashSeeds == 0..MaxHashSeed

Acme == <<"A", "c", "m", "e">>
Toys == <<"T", "o", "y", "s">>
Good == <<"G", "o", "o", "d">>
NameLetters == <<"M", "o", "u", "s", "e", " ">>

\* a product name of n characters
NameOfLen(n) == [i \in 1..n |-> NameLetters[((i - 1) % Len(NameLetters)) + 1]]

\* the longest name that, after "Acme ", fits the title limit of key
FitLen(key) == MARKETPLACE_TEMPLATES[key].max_title_length - Len(Acme) - 1

NameLens ==
    {0, ShortNameLen, FitLen("meesho"), FitLen("meesho") + 1, LongNameLen}

AllFeatures ==
    <<<<"F", "a", "s", "t">>,
      <<"U", "S", "B", "-", "C">>,
      <<"L", "i", "g", "h", "t", " ", "b", "o", "d", "y">>,
      <<"R", "e", "d">>,
      <<"Q", "u", "i", "e", "t">>,
      <<"S", "m", "a", "l", "l">>,
      <<"W", "i", "d", "e">>,
      <<"T", "h", "i", "n">>>>

FeatureLists == {SubSeq(AllFeatures, 1, n) : n \in 0..MaxFeatures}

AllUsps ==
    <<<<"C", "h", "e", "a", "p">>, <<"N", "e", "w">>,
      <<"S", "a", "f", "e">>, <<"E", "c", "o">>>>

SomeSpecifications ==
    <<<<<<"C", "o", "l", "o", "r">>, [kind |-> "scalar", val |-> <<"R", "e", "d">>]>>,
      <<<<"S", "i", "z", "e", "s">>, [kind |-> "list", val |-> <<<<"S">>, <<"M">>>>]>>>>

\* the optional parts of a fact set: none of them, or all of them
Details ==
    {[usps |-> <<>>, specifications |-> <<>>, extras |-> EmptyDict],
     [usps |-> AllUsps, specifications |-> SomeSpecifications,
      extras |-> [additional_notes |-> <<"N", "o", "t", "e">>,
                  material_care |-> <<"W", "a", "s", "h">>,
                  usage_instructions |-> <<"U", "s", "e">>,
                  ingredients |-> <<"W", "a", "t", "e", "r">>]]}

Prices == {NoneValue, Some(0), Some(499)}

\* a = b for dicts, a's entries taking precedence
Merge(a, b) == [k \in DOMAIN a \cup DOMAIN b |-> IF k \in DOMAIN a THEN a[k] ELSE b[k]]

FactSet(brand, name, category, description, price, features, detail) ==
    [basic_info |-> Merge([brand_name |-> brand, product_name |-> name,
                           category |-> category, description |-> description,
                           price |-> price], detail.extras),
     features |-> features,
     usps |-> detail.usps,
     specifications |-> detail.specifications]

\* every combination of the conditions the validator tests
ValidationFacts ==
    {FactSet(b, NameOfLen(n), c, d, p, f, x) :
        b \in {<<>>, Acme}, n \in {0, ShortNameLen}, c \in {<<>>, Toys},
        d \in {<<>>, Good}, p \in Prices, f \in {<<>>, SubSeq(AllFeatures, 1, 1)},
        x \in {y \in Details : y.usps = <<>>}}

\* fact sets that pass the always-required checks, in every size
RenderingFacts ==
    {FactSet(b, NameOfLen(n), c, Good, Some(499), f, x) :
        b \in {<<>>, Acme}, n \in NameLens \ {0}, c \in {<<>>, Toys},
        f \in FeatureLists \ {<<>>}, x \in Details}

\* six features of three or four words: more than twenty keyword candidates
WordyFeatures ==
    <<<<"F", "a", "s", "t", " ", "w", "i", "r", "e", "d", " ", "l", "i", "n", "k">>,
      <<"L", "i", "g", "h", "t", " ", "a", "l", "l", "o", "y", " ", "b", "o", "d", "y">>,
      <<"Q", "u", "i", "e", "t", " ", "s", "o", "f", "t", " ", "k", "e", "y", "s">>,
      <<"S", "m", "a", "l", "l", " ", "r", "o", "u", "n", "d", " ", "b", "a", "s", "e">>,
      <<"W", "i", "d", "e", " ", "g", "r", "i", "p", " ", "a", "r", "e", "a">>,
      <<"T", "h", "i", "n", " ", "c", "a", "b", "l", "e", " ", "o", "f", " ", "w", "r", "a", "p">>>>

\* brands as a caller may pass them: plain, with a leading blank, a
\* two-letter one with a leading blank, one of two words, and None
KeywordBrands ==
    {Acme, <<" ">> \o Acme, <<" ", "H", "p">>, Acme \o <<" ", "C", "o", "r", "p">>,
     NoneStr}

\* product names: one that does not hold the brand, one that does
KeywordNames == {NameOfLen(ShortNameLen), Acme \o <<" ", "P", "a", "d">>}

\* fact sets that pass validation and differ in what the keywords are made of
KeywordFacts ==
    {FactSet(b, n, Toys, Good, Some(499), f,
             [usps |-> <<>>, specifications |-> <<>>, extras |-> EmptyDict]) :
        b \in KeywordBrands, n \in KeywordNames,
        f \in {SubSeq(AllFeatures, 1, 1), WordyFeatures}}

FactSets == ValidationFacts \cup RenderingFacts \cup KeywordFacts

UnknownKeys == {"jiomart", "Amazon_IN"}

RequestKeys == CatalogKeys \cup UnknownKeys

\* the fact sets of a batch: what decides which marketplaces fail
BatchFacts ==
    {FactSet(b, NameOfLen(n), c, Good, p, SubSeq(AllFeatures, 1, 1), x) :
        b \in {<<>>, Acme}, n \in {0, ShortNameLen}, c \in {<<>>, Toys},
        p \in {NoneValue, Some(499)}, x \in {y \in Details : y.usps = <<>>}}

BatchKeys == {"amazon_in", "flipkart", "meesho", "shopify", "jiomart"}

KeyLists == UNION {[1..n -> BatchKeys] : n \in 0..MaxBatchKeys}

-----------------------------------------------------------------------------
(* The service called directly *)

NoCall == [raised |-> FALSE, value |-> EmptyDict]

\* the backend of a run that makes no MergeChain
NoBackend == [raised |-> FALSE, value |-> <<>>]

Init ==
    /\ hash_seed \in HashSeeds
    /\ product_info \in FactSets
    /\ last_call = "none"
    /\ marketplace_keys \in {<<key>> : key \in RequestKeys}
    /\ call_result = NoCall
    /\ session = EmptyDict
    /\ rerun_pending = FALSE
    /\ ui = EmptyDict
    /\ earlier_result = NoCall
    /\ catalog = MARKETPLACE_TEMPLATES
    /\ shares = EmptyDict
    /\ backend = NoBackend
    /\ prompts = <<>>

\* a caller runs generate_marketplace_content(product_info, marketplace_key)
CallGenerateOne ==
    /\ last_call = "none"
    /\ last_call' = "generate_marketplace_content"
    /\ call_result' =
           GenerateMarketplaceContent(product_info, marketplace_keys[1], hash_seed)
    /\ UNCHANGED <<backend, prompts,
                   hash_seed, product_info, marketplace_keys, session,
                   rerun_pending, ui, earlier_result, catalog, shares>>

Next == CallGenerateOne

Spec == Init /\ [][Next]_vars

-----------------------------------------------------------------------------
(* The batch generator called directly *)

InitBatch ==
    /\ hash_seed \in HashSeeds
    /\ product_info \in BatchFacts
    /\ last_call = "none"
    /\ marketplace_keys \in KeyLists
    /\ call_result = NoCall
    /\ session = EmptyDict
    /\ rerun_pending = FALSE
    /\ ui = EmptyDict
    /\ earlier_result = NoCall
    /\ catalog = MARKETPLACE_TEMPLATES
    /\ shares = EmptyDict
    /\ backend = NoBackend
    /\ prompts = <<>>

\* a caller runs generate_all_marketplace_content(product_info, marketplace_keys)
CallGenerateAll ==
    /\ last_call = "none"
    /\ last_call' = "generate_all_marketplace_content"
    /\ call_result' =
           GenerateAllMarketplaceContent(product_info, marketplace_keys, hash_seed)
    /\ UNCHANGED <<backend, prompts,
                   hash_seed, product_info, marketplace_keys, session,
                   rerun_pending, ui, earlier_result, catalog, shares>>

NextBatch == CallGenerateAll

SpecBatch == InitBatch /\ [][NextBatch]_vars

-----------------------------------------------------------------------------
(* The same call made twice, the process restarted or not in between *)

TwiceKeys == {"amazon_in", "shopify", "jiomart"}

TwiceFacts == KeywordFacts \cup {f \in RenderingFacts : f.specifications # <<>>}

InitTwice ==
    /\ hash_seed \in HashSeeds
    /\ product_info \in TwiceFacts
    /\ last_call = "none"
    /\ marketplace_keys \in {<<key>> : key \in TwiceKeys}
    /\ call_result = NoCall
    /\ session = EmptyDict
    /\ rerun_pending = FALSE
    /\ ui = EmptyDict
    /\ earlier_result = NoCall
    /\ catalog = MARKETPLACE_TEMPLATES
    /\ shares = EmptyDict
    /\ backend = NoBackend
    /\ prompts = <<>>

\* the first generate_marketplace_content(product_info, marketplace_key)
CallFirst ==
    /\ last_call = "none"
    /\ last_call' = "first"
    /\ call_result' =
           GenerateMarketplaceContent(product_info, marketplace_keys[1], hash_seed)
    /\ UNCHANGED <<backend, prompts,
                   hash_seed, product_info, marketplace_keys, session,
                   rerun_pending, ui, earlier_result, catalog, shares>>

\* the interpreter is started anew: str hashes get another seed
Restart ==
    /\ last_call = "first"
    /\ last_call' = "restarted"
    /\ hash_seed' \in HashSeeds
    /\ UNCHANGED <<backend, prompts,
                   product_info, marketplace_keys, call_result, session,
                   rerun_pending, ui, earlier_result, catalog, shares>>

\* generate_marketplace_content once more, with the same arguments
CallAgain ==
    /\ last_call \in {"first", "restarted"}
    /\ last_call' = "again"
    /\ earlier_result' = call_result
    /\ call_result' =
           GenerateMarketplaceContent(product_info, marketplace_keys[1], hash_seed)
    /\ UNCHANGED <<backend, prompts,
                   hash_seed, product_info, marketplace_keys, session,
                   rerun_pending, ui, catalog, shares>>

NextTwice == CallFirst \/ Restart \/ CallAgain

SpecTwice == InitTwice /\ [][NextTwice]_vars

-----------------------------------------------------------------------------
(* The objects a batch works on: which of them the call writes to, and     *)
(* which of them an outcome holds by reference, so that a caller writing   *)
(* to the outcome writes to them                                           *)

\* the fact set with the feature list cut in place to the smallest
\* max_bullets of the rules used
FactsWithFeaturesCut(info, keys) ==
    LET limits == {MARKETPLACE_TEMPLATES[keys[i]].max_bullets[1] :
                       i \in {j \in DOMAIN keys :
                                 /\ keys[j] \in DOMAIN MARKETPLACE_TEMPLATES
                                 /\ MARKETPLACE_TEMPLATES[keys[j]].max_bullets # NoneValue}}
    IN  IF limits = {} THEN info
        ELSE [info EXCEPT !.features =
                  SliceTo(@, CHOOSE n \in limits : \A o \in limits : n <= o)]

\* The fact set as generate_all_marketplace_content leaves it.  The call
\* reads it with get and subscripts, and features[:max_items] (line 143)
\* and product_info["features"][:n] (line 282) build new lists: no
\* statement writes to the dict or to an object in it.
FactsLeftBy(info, keys) == info

\* The catalog as the call leaves it: the rules are read only.
CatalogLeftBy(templates, keys) == templates

\* lines 297-307: the objects a result holds by reference.  The
\* specifications are the dict of the fact set itself when the rule asks
\* for them, a new empty dict otherwise; the template is the rule of the
\* catalog itself.  A failure holds none.
SharesOf(info, key, outcome) ==
    IF outcome.success
    THEN [specifications |->
              IF outcome.template.requires_technical_specs
                 /\ "specifications" \in DOMAIN info
              THEN "product_info" ELSE "own",
          template |-> "catalog"]
    ELSE [specifications |-> "none", template |-> "none"]

ShareFacts ==
    {FactSet(b, NameOfLen(n), Toys, Good, Some(499), f, x) :
        b \in {<<>>, Acme}, n \in {0, ShortNameLen},
        f \in {SubSeq(AllFeatures, 1, 1), SubSeq(AllFeatures, 1, MaxFeatures)},
        x \in Details}

MaxSharedKeys == 2

ShareKeyLists == UNION {[1..n -> BatchKeys] : n \in 0..MaxSharedKeys}

InitShare ==
    /\ hash_seed \in HashSeeds
    /\ product_info \in ShareFacts
    /\ last_call = "none"
    /\ marketplace_keys \in ShareKeyLists
    /\ call_result = NoCall
    /\ session = EmptyDict
    /\ rerun_pending = FALSE
    /\ ui = EmptyDict
    /\ earlier_result = NoCall
    /\ catalog = MARKETPLACE_TEMPLATES
    /\ shares = EmptyDict
    /\ backend = NoBackend
    /\ prompts = <<>>

\* generate_all_marketplace_content(product_info, marketplace_keys), the
\* catalog being as shipped
GenerateAllShared ==
    /\ last_call = "none"
    /\ catalog = MARKETPLACE_TEMPLATES
    /\ last_call' = "generate_all_marketplace_content"
    /\ call_result' =
           GenerateAllMarketplaceContent(product_info, marketplace_keys, hash_seed)
    /\ shares' = [k \in DOMAIN call_result'.value.results |->
                     SharesOf(product_info, k, call_result'.value.results[k])]
    /\ product_info' = FactsLeftBy(product_info, marketplace_keys)
    /\ catalog' = CatalogLeftBy(catalog, marketplace_keys)
    /\ UNCHANGED <<backend, prompts,
                   hash_seed, marketplace_keys, session, rerun_pending, ui,
                   earlier_result>>

NoteEntry ==
    <<<<"N", "o", "t", "e">>, [kind |-> "scalar", val |-> <<"x">>]>>

\* a caller runs results[k]["specifications"]["Note"] = "x": the dict
\* written to is the one every holder of it sees
CallerAddsSpecification(k) ==
    /\ last_call = "generate_all_marketplace_content"
    /\ k \in DOMAIN call_result.value.results
    /\ call_result.value.results[k].success
    /\ last_call' = "outcome modified"
    /\ LET added == Append(call_result.value.results[k].specifications, NoteEntry)
           shared == shares[k].specifications = "product_info"
           Holds(j) == j = k \/ (shared /\ shares[j].specifications = "product_info")
       IN  /\ call_result' =
                  [call_result EXCEPT !.value.results =
                       [j \in DOMAIN @ |->
                           IF Holds(j) THEN [@[j] EXCEPT !.specifications = added]
                           ELSE @[j]]]
           /\ product_info' =
                  IF shared THEN [product_info EXCEPT !.specifications = added]
                  ELSE product_info
    /\ UNCHANGED <<backend, prompts,
                   hash_seed, marketplace_keys, session, rerun_pending, ui,
                   earlier_result, catalog, shares>>

\* a caller runs results[k]["template"]["requires_price"] = False: the
\* dict written to is the rule of the catalog
CallerClearsRequiresPrice(k) ==
    /\ last_call = "generate_all_marketplace_content"
    /\ k \in DOMAIN call_result.value.results
    /\ call_result.value.results[k].success
    /\ shares[k].template = "catalog"
    /\ last_call' = "outcome modified"
    /\ call_result' =
           [call_result EXCEPT !.value.results[k].template.requires_price = FALSE]
    /\ catalog' = [catalog EXCEPT ![k].requires_price = FALSE]
    /\ UNCHANGED <<backend, prompts,
                   hash_seed, product_info, marketplace_keys, session,
                   rerun_pending, ui, earlier_result, shares>>

NextShare ==
    \/ GenerateAllShared
    \/ \E k \in BatchKeys : CallerAddsSpecification(k)
    \/ \E k \in BatchKeys : CallerClearsRequiresPrice(k)

SpecShare == InitShare /\ [][NextShare]_vars

-----------------------------------------------------------------------------
(* The wizard: one script run of main() per user event *)

\* the checkboxes of the marketplace selection step, in the order rendered
MarketplaceCheckboxes ==
    <<"amazon_in", "flipkart", "meesho", "myntra", "ajio", "nykaa", "jiomart",
      "amazon_us", "walmart",
      "noon", "amazon_ae",
      "shopify", "etsy", "instagram", "facebook", "google_shopping">>

\* SessionState.initialize, and the features list the first rendering of
\* the product form creates
FreshSession ==
    [current_step |-> 1,
     form_product_info |-> NoneValue,
     form_selected_marketplaces |-> NoneValue,
     features |-> <<<<>>>>,
     selected_marketplaces |-> NoneValue,
     marketplace_form_submitted |-> FALSE,
     generated_content |-> EmptyDict,
     successful_generations |-> NoneValue]

\* nothing shown: generate_descriptions did not run
IdleUi ==
    [ran |-> FALSE, called_batch |-> FALSE, keys |-> <<>>, results |-> EmptyDict,
     returned |-> NoneValue, errors |-> <<>>, warnings |-> <<>>]

\* generate_descriptions ran and did not get a batch result: what it showed
\* with st.error, and its return value
Shown(errors, returned) ==
    [ran |-> TRUE, called_batch |-> FALSE, keys |-> <<>>, results |-> EmptyDict,
     returned |-> returned, errors |-> errors, warnings |-> <<>>]

\* generate_descriptions got the outcomes results for keys: what it showed
\* with st.error and st.warning, and its return value (None when st.rerun()
\* ended it)
ShownBatch(keys, results, errors, warnings, returned) ==
    [ran |-> TRUE, called_batch |-> TRUE, keys |-> keys, results |-> results,
     returned |-> returned, errors |-> errors, warnings |-> warnings]

\* [f.strip() for f in features if f and str(f).strip()]
StrippedFeatures(features) ==
    LET Kept(f) == TruthyContainer(f) /\ TruthyContainer(Strip(f))
        kept == SelectSeq(features, Kept)
    IN  [i \in DOMAIN kept |-> Strip(kept[i])]

\* product_info of lines 154-186.  The widget values of the product form
\* are those saved in form_data when the form was submitted.
BuildProductInfo(s) ==
    LET form == IF s.form_product_info = NoneValue THEN EmptyDict
                ELSE s.form_product_info[1]
        basic == Get(form, "basic_info", EmptyDict)
        features_fd == Get(form, "features", <<>>)
        features == IF TruthyContainer(s.features) THEN s.features ELSE features_fd
        price_candidate == Get(basic, "price", NoneValue)
    IN  [basic_info |->
             [brand_name |-> Strip(Get(basic, "brand_name", <<>>)),
              product_name |-> Strip(Get(basic, "product_name", <<>>)),
              category |-> Strip(Get(basic, "category", <<>>)),
              description |-> Strip(Get(basic, "description", <<>>)),
              target_audience |-> Strip(Get(basic, "target_audience", <<>>)),
              price |-> price_candidate,
              currency |-> Get(basic, "currency", <<"U", "S", "D">>),
              usp |-> Strip(Get(basic, "usp", <<>>)),
              material_care |-> <<>>,
              usage_instructions |-> <<>>,
              ingredients |-> <<>>,
              additional_notes |-> <<>>],
         features |-> StrippedFeatures(features),
         usps |-> <<>>,
         specifications |-> <<>>]

\* the keys of a dict in insertion order, the dict filled in the order keys
FirstOccurrences(keys) ==
    LET IsFirst(i) == \A j \in 1..(i - 1) : keys[j] # keys[i]
        firsts == SelectSeq([i \in DOMAIN keys |-> i], IsFirst)
    IN  [i \in DOMAIN firsts |-> keys[firsts[i]]]

\* failed of lines 224-225
FailedKeys(keys, results) ==
    LET Failed(k) == ~results[k].success
    IN  SelectSeq(FirstOccurrences(keys), Failed)

ErrAllFailed ==
    "Failed to generate content for all marketplaces. Please check your input and try again."

PartialWarning(failed) ==
    [text |-> "Generated content with {n} errors. Failed for: {keys}",
     n |-> Len(failed), keys |-> failed]

\* the batch result handled with any failure taken as fatal
ClassifyBatchAnyFailureFatal(s, keys, result) ==
    LET stored == [s EXCEPT !.generated_content = result.results]
        failed == FailedKeys(keys, result.results)
        succeeded == {k \in DOMAIN result.results : result.results[k].success}
    IN  IF TruthyContainer(failed)
        THEN [session |-> stored, rerun |-> FALSE,
              ui |-> ShownBatch(keys, result.results, <<ErrAllFailed>>, <<>>,
                                Some(FALSE))]
        ELSE [session |->
                  [stored EXCEPT
                      !.successful_generations =
                          Some([k \in succeeded |-> result.results[k]]),
                      !.current_step = 3],
              rerun |-> TRUE,
              ui |-> ShownBatch(keys, result.results, <<>>, <<>>, NoneValue)]

\* the classification that moves to the results step whatever failed
ClassifyBatchShowingAlways(s, keys, result) ==
    LET succeeded == {k \in DOMAIN result.results : result.results[k].success}
    IN  [session |->
             [s EXCEPT !.generated_content = result.results,
                       !.successful_generations =
                           Some([k \in succeeded |-> result.results[k]]),
                       !.current_step = 3],
         rerun |-> TRUE,
         ui |-> ShownBatch(keys, result.results, <<>>, <<>>, NoneValue)]

\* the classification with every entry of the batch kept as successful
ClassifyBatchKeepingAll(s, keys, result) ==
    IF result.success
    THEN LET stored == [s EXCEPT !.generated_content = result.results]
             failed == FailedKeys(keys, result.results)
         IN  IF TruthyContainer(failed) /\ Len(failed) = Len(keys)
             THEN [session |-> stored, rerun |-> FALSE,
                   ui |-> ShownBatch(keys, result.results, <<ErrAllFailed>>, <<>>,
                                     Some(FALSE))]
             ELSE [session |->
                       [stored EXCEPT
                           !.successful_generations = Some(result.results),
                           !.current_step = 3],
                   rerun |-> TRUE,
                   ui |-> ShownBatch(keys, result.results, <<>>, <<>>,
                                     NoneValue)]
    ELSE [session |-> s, rerun |-> FALSE,
          ui |-> Shown(<<"Error: Unknown error occurred while generating content.">>,
                       Some(FALSE))]

\* lines 220-253: what generate_descriptions does with the batch result
ClassifyBatch(s, keys, result) ==
    IF result.success
    THEN LET stored == [s EXCEPT !.generated_content = result.results]
             failed == FailedKeys(keys, result.results)
             succeeded == {k \in DOMAIN result.results : result.results[k].success}
         IN  IF TruthyContainer(failed) /\ Len(failed) = Len(keys)
             THEN [session |-> stored, rerun |-> FALSE,
                   ui |-> ShownBatch(keys, result.results, <<ErrAllFailed>>, <<>>,
                                     Some(FALSE))]
             ELSE [session |->
                       [stored EXCEPT
                           !.successful_generations =
                               Some([k \in succeeded |-> result.results[k]]),
                           !.current_step = 3],
                   rerun |-> TRUE,
                   ui |-> ShownBatch(keys, result.results, <<>>,
                                     IF TruthyContainer(failed)
                                     THEN <<PartialWarning(failed)>> ELSE <<>>,
                                     NoneValue)]
    ELSE [session |-> s, rerun |-> FALSE,
          ui |-> Shown(<<"Error: Unknown error occurred while generating content.">>,
                       Some(FALSE))]

\* lines 215-261: the batch call, an exception of it caught at line 258
ClassifyCall(s, keys, batch) ==
    IF batch.raised
    THEN [session |-> s, rerun |-> FALSE,
          ui |-> Shown(<<"An unexpected error occurred">>, Some(FALSE))]
    ELSE ClassifyBatch(s, keys, batch.value)

GaveUp(s, message) ==
    [session |-> s, rerun |-> FALSE,
     ui |-> Shown(<<message>>, Some(FALSE))]

\* lines 188-253 of generate_descriptions: the checks of the product_info
\* built, then the batch
GenerateFrom(s, info, keys, seed) ==
    LET RequiresPrice(k) ==
            k \in DOMAIN MARKETPLACE_TEMPLATES /\ MARKETPLACE_TEMPLATES[k].requires_price
    IN  IF ~TruthyContainer(info.basic_info.product_name)
        THEN GaveUp(s, "Product name is required.")
        ELSE IF ~TruthyContainer(info.basic_info.description)
        THEN GaveUp(s, "Product description is required.")
        ELSE IF ~TruthyContainer(info.features)
        THEN GaveUp(s, "Please add at least one product feature.")
        ELSE IF (\E i \in DOMAIN keys : RequiresPrice(keys[i]))
                /\ ~TruthyNumber(info.basic_info.price)
        THEN GaveUp(s, "Price is required for one or more selected marketplaces. Please enter a valid price in Step 1.")
        ELSE ClassifyCall(s, keys, GenerateAllMarketplaceContent(info, keys, seed))

\* generate_descriptions
GenerateDescriptions(s, seed) ==
    IF s.selected_marketplaces = NoneValue
    THEN GaveUp(s, "Please select at least one marketplace.")
    ELSE IF ~TruthyContainer(s.selected_marketplaces[1])
    THEN GaveUp(s, "Please select at least one marketplace.")
    ELSE GenerateFrom(s, BuildProductInfo(s), s.selected_marketplaces[1], seed)

NoEvent == [kind |-> "none"]

Rerun(s, shown) == [session |-> s, rerun |-> TRUE, ui |-> shown]

Rest(s, shown) == [session |-> s, rerun |-> FALSE, ui |-> shown]

\* render_product_info_form, lines 145-178: the submit button
RenderProductInfoForm(s, event, shown) ==
    IF event.kind # "submit_form" THEN Rest(s, shown)
    ELSE LET form == event.form
             typed == [s EXCEPT !.features = form.features]
             IsFilled(f) == TruthyContainer(f)
             form_data ==
                 [basic_info |->
                      [brand_name |-> form.brand_name,
                       product_name |-> form.product_name,
                       category |-> form.category,
                       description |-> form.description,
                       target_audience |-> form.target_audience,
                       price |-> IF form.price > 0 THEN Some(form.price) ELSE NoneValue,
                       currency |-> <<"U", "S", "D">>,
                       usp |-> <<>>],
                  features |-> SelectSeq(form.features, IsFilled)]
         IN  IF \E f \in {form.brand_name, form.product_name, form.category,
                          form.target_audience} : ~TruthyContainer(f)
             THEN Rest(typed, shown)
             ELSE IF ~\E i \in DOMAIN form.features : TruthyContainer(form.features[i])
             THEN Rest(typed, shown)
             ELSE Rerun([typed EXCEPT !.form_product_info = Some(form_data),
                                      !.current_step = 2], shown)

\* render_marketplace_selection, lines 229-247: the two buttons
RenderMarketplaceSelection(s, event, shown) ==
    IF event.kind = "back" THEN Rerun([s EXCEPT !.current_step = 1], shown)
    ELSE IF event.kind = "generate"
    THEN IF ~TruthyContainer(event.selected) THEN Rest(s, shown)
         ELSE Rerun([s EXCEPT !.form_selected_marketplaces = Some(event.selected),
                              !.selected_marketplaces = Some(event.selected),
                              !.marketplace_form_submitted = TRUE], shown)
    ELSE Rest(s, shown)

\* render_results, lines 254-261 and 303-315: the buttons
RenderResults(s, event, shown) ==
    LET marketplaces == IF s.form_selected_marketplaces = NoneValue THEN <<>>
                        ELSE s.form_selected_marketplaces[1]
    IN  IF event.kind = "back_to_marketplaces"
        THEN Rerun([s EXCEPT !.current_step = 2], shown)
        ELSE IF event.kind = "regenerate" /\ TruthyContainer(marketplaces)
        THEN Rerun([s EXCEPT !.marketplace_form_submitted = TRUE,
                             !.current_step = 2], shown)
        ELSE Rest(s, shown)

\* render_content
RenderContent(s, event, shown) ==
    IF s.current_step = 1 THEN RenderProductInfoForm(s, event, shown)
    ELSE IF s.current_step = 2 THEN RenderMarketplaceSelection(s, event, shown)
    ELSE RenderResults(s, event, shown)

\* main, lines 286-288: the sidebar and the layout, unless
\* generate_descriptions has ended the run with st.rerun()
RenderAfter(handled, event) ==
    IF handled.rerun THEN handled
    ELSE IF event.kind = "reset" THEN Rerun(FreshSession, handled.ui)
    ELSE RenderContent(handled.session, event, handled.ui)

\* main, lines 282-284.  (product_form_submitted is set nowhere, so lines
\* 277-280 do nothing.)
HandleSubmissions(s, seed) ==
    IF s.current_step = 2 /\ s.marketplace_form_submitted
    THEN GenerateDescriptions(s, seed)
    ELSE Rest(s, IdleUi)

\* main: one run of the script
Main(s, event, seed) == RenderAfter(HandleSubmissions(s, seed), event)

-----------------------------------------------------------------------------
(* The wizard driven by a user *)

MaxSelected == 2

TickableKeys == {"amazon_in", "meesho", "shopify", "jiomart"}

\* the ticked checkboxes in the order rendered
Selection(ticked) ==
    LET IsTicked(k) == k \in ticked IN SelectSeq(MarketplaceCheckboxes, IsTicked)

Selections ==
    {Selection(t) : t \in {u \in SUBSET TickableKeys : Cardinality(u) <= MaxSelected}}

Forms ==
    [brand_name : {<<>>, <<" ">>, Acme},
     product_name : {NameOfLen(ShortNameLen)},
     category : {Toys},
     target_audience : {<<"A", "l", "l">>},
     price : {0, 499},
     description : {<<>>, Good},
     features : {SubSeq(AllFeatures, 1, 1)}]

InitApp ==
    /\ hash_seed \in HashSeeds
    /\ product_info = EmptyDict
    /\ last_call = "none"
    /\ marketplace_keys = <<>>
    /\ call_result = NoCall
    /\ session = FreshSession
    /\ rerun_pending = FALSE
    /\ ui = IdleUi
    /\ earlier_result = NoCall
    /\ catalog = MARKETPLACE_TEMPLATES
    /\ shares = EmptyDict
    /\ backend = NoBackend
    /\ prompts = <<>>

\* the script runs with the session as it is and the event of the user
Becomes(run) ==
    /\ session' = run.session
    /\ rerun_pending' = run.rerun
    /\ ui' = run.ui
    /\ UNCHANGED <<backend, prompts,
                   hash_seed, product_info, last_call, marketplace_keys,
                   call_result, earlier_result, catalog, shares>>

ScriptRun(event) == Becomes(Main(session, event, hash_seed))

\* the run that st.rerun() asked for
ScriptRerun == rerun_pending /\ ScriptRun(NoEvent)

\* a widget other than a button changed
Interact == ~rerun_pending /\ ScriptRun(NoEvent)

SubmitProductForm(form) ==
    /\ ~rerun_pending /\ session.current_step = 1
    /\ ScriptRun([kind |-> "submit_form", form |-> form])

ClickBack ==
    /\ ~rerun_pending /\ session.current_step = 2
    /\ ScriptRun([kind |-> "back"])

ClickGenerate(selected) ==
    /\ ~rerun_pending /\ session.current_step = 2
    /\ ScriptRun([kind |-> "generate", selected |-> selected])

ClickBackToMarketplaces ==
    /\ ~rerun_pending /\ session.current_step = 3
    /\ ScriptRun([kind |-> "back_to_marketplaces"])

ClickRegenerateAll ==
    /\ ~rerun_pending /\ session.current_step = 3
    /\ ScriptRun([kind |-> "regenerate"])

ClickResetForm == ~rerun_pending /\ ScriptRun([kind |-> "reset"])

NextApp ==
    \/ ScriptRerun
    \/ Interact
    \/ \E form \in Forms : SubmitProductForm(form)
    \/ ClickBack
    \/ \E selected \in Selections : ClickGenerate(selected)
    \/ ClickBackToMarketplaces
    \/ ClickRegenerateAll
    \/ ClickResetForm

SpecApp == InitApp /\ [][NextApp]_vars

-----------------------------------------------------------------------------
(* Properties of generate_marketplace_content, checked under Spec *)

AfterOne == last_call = "generate_marketplace_content"

TheKey == marketplace_keys[1]

TheRule == MARKETPLACE_TEMPLATES[TheKey]

TheOutcome == call_result.value

Succeeded == AfterOne /\ ~call_result.raised /\ TheOutcome.success

BasicInfo == product_info.basic_info

\* C1: for a marketplace key that is not in MARKETPLACE_TEMPLATES, whatever
\* the fact set, generate_marketplace_content does not raise and returns a
\* failure whose reason says no template was found for that marketplace.
C1_UnknownKeyFails ==
    (AfterOne /\ TheKey \notin CatalogKeys) =>
        /\ ~call_result.raised
        /\ TheOutcome.success = FALSE
        /\ TheOutcome.error = <<"No template found for marketplace: ", TheKey>>

\* an unknown key was requested for a fact set that a catalog rule accepts
C1_Witness ==
    /\ AfterOne /\ TheKey \notin CatalogKeys
    /\ ValidateProductInfo(product_info, MARKETPLACE_TEMPLATES["amazon_in"]) = <<>>
    /\ ~TheOutcome.success

\* C2: for a catalog marketplace and a fact set with an empty product name,
\* an empty description or an empty feature list, the outcome is a failure
\* with a non-empty validation_errors list that holds the matching message.
C2_MissingRequiredFails ==
    (AfterOne /\ TheKey \in CatalogKeys) =>
        LET Reported(msg) ==
                /\ ~call_result.raised
                /\ TheOutcome.success = FALSE
                /\ "validation_errors" \in DOMAIN TheOutcome
                /\ TheOutcome.validation_errors # <<>>
                /\ msg \in Range(TheOutcome.validation_errors)
        IN  /\ (BasicInfo.product_name = <<>>) => Reported("Product name is required")
            /\ (BasicInfo.description = <<>>) => Reported("Product description is required")
            /\ (product_info.features = <<>>) => Reported("At least one feature is required")

\* only the description is missing, and that is what is reported
C2_Witness ==
    /\ AfterOne /\ TheKey \in CatalogKeys
    /\ BasicInfo.description = <<>>
    /\ BasicInfo.product_name # <<>> /\ product_info.features # <<>>
    /\ TheOutcome.validation_errors = <<"Product description is required">>

\* the six checks of the validator in their fixed order, each with the
\* condition under which it is violated
ValidationChecks(info, rule) ==
    <<[violated |-> rule.requires_brand /\ info.basic_info.brand_name \in {<<>>, NoneStr},
       message |-> "Brand name is required for this marketplace"],
      [violated |-> rule.requires_price /\ info.basic_info.price \in {NoneValue, Some(0)},
       message |-> "Price is required for this marketplace"],
      [violated |-> rule.requires_category /\ info.basic_info.category = <<>>,
       message |-> "Category is required for this marketplace"],
      [violated |-> info.basic_info.product_name = <<>>,
       message |-> "Product name is required"],
      [violated |-> info.basic_info.description = <<>>,
       message |-> "Product description is required"],
      [violated |-> info.features = <<>>,
       message |-> "At least one feature is required"]>>

IsViolated(check) == check.violated

ExpectedErrors(info, rule) ==
    LET violated == SelectSeq(ValidationChecks(info, rule), IsViolated)
    IN  [i \in DOMAIN violated |-> violated[i].message]

\* C3: the validator returns exactly the errors whose condition holds, one
\* per violated check, in the fixed order brand, price, category, product
\* name, description, features; the generator reports that list, and goes
\* on without one exactly when no check is violated.
C3_ErrorsExactAndOrdered ==
    (AfterOne /\ TheKey \in CatalogKeys) =>
        LET expected == ExpectedErrors(product_info, TheRule)
        IN  /\ ValidateProductInfo(product_info, TheRule) = expected
            /\ IF expected = <<>>
               THEN "validation_errors" \notin DOMAIN TheOutcome
               ELSE /\ "validation_errors" \in DOMAIN TheOutcome
                    /\ TheOutcome.validation_errors = expected

\* the example of the specification: empty brand and null price against a
\* rule that requires both
C3_Witness ==
    /\ AfterOne /\ TheKey \in CatalogKeys
    /\ TheRule.requires_brand /\ TheRule.requires_price
    /\ BasicInfo.brand_name = <<>> /\ BasicInfo.price = NoneValue
    /\ TheOutcome.validation_errors =
           <<"Brand name is required for this marketplace",
             "Price is required for this marketplace">>

\* the title template of the rule with the variables substituted
SubstitutedTitle ==
    Substitute(TheRule.title, ProcessTemplateVariables(product_info, TheRule))

\* C4: with N the rule's max_title_length and M the length of the
\* substituted title: if M > N the title returned has length exactly N, ends
\* with "..." and starts with the first N-3 characters of the substituted
\* title; if M <= N it is the substituted title.  So no title exceeds N.
C4_TitleTruncation ==
    Succeeded =>
        LET N == TheRule.max_title_length
            M == Len(SubstitutedTitle)
            title == TheOutcome.title
        IN  /\ Len(title) <= N
            /\ IF M > N
               THEN /\ Len(title) = N
                    /\ SubSeq(title, N - 2, N) = <<".", ".", ".">>
                    /\ SubSeq(title, 1, N - 3) = SubSeq(SubstitutedTitle, 1, N - 3)
               ELSE title = SubstitutedTitle

\* a title one character too long was truncated
C4_Witness ==
    /\ Succeeded
    /\ Len(SubstitutedTitle) = TheRule.max_title_length + 1
    /\ Len(TheOutcome.title) = TheRule.max_title_length

\* a title of exactly the limit was kept
C4_WitnessKept ==
    /\ Succeeded
    /\ Len(SubstitutedTitle) = TheRule.max_title_length
    /\ TheOutcome.title = SubstitutedTitle

\* C5: in a success, bullet_points is the first max_bullets features in
\* their order when the rule's max_bullets is a number, and the whole
\* feature list when max_bullets is None (flipkart, shopify).
C5_BulletPointsAllWhenUnbounded ==
    Succeeded =>
        TheOutcome.bullet_points =
            IF TheRule.max_bullets = NoneValue
            THEN product_info.features
            ELSE SliceTo(product_info.features, TheRule.max_bullets[1])

\* C6: in a success, specifications is the fact set's specifications when
\* the rule has requires_technical_specs, and the empty map when it has not,
\* even if the fact set has specifications.
C6_SpecificationsOnlyIfRequired ==
    Succeeded =>
        TheOutcome.specifications =
            IF TheRule.requires_technical_specs
            THEN product_info.specifications
            ELSE <<>>

\* a fact set with specifications, a rule that does not want them
C6_Witness ==
    /\ Succeeded
    /\ ~TheRule.requires_technical_specs
    /\ product_info.specifications # <<>>
    /\ TheOutcome.specifications = <<>>

-----------------------------------------------------------------------------
(* Properties of generate_all_marketplace_content, checked under SpecBatch *)

AfterAll == last_call = "generate_all_marketplace_content"

Batch == call_result.value

Outcomes == Batch.results

SuccessKeys == {k \in DOMAIN Outcomes : Outcomes[k].success}

FailureKeys == {k \in DOMAIN Outcomes : ~Outcomes[k].success}

UniqueKeys(keys) == \A i, j \in DOMAIN keys : keys[i] = keys[j] => i = j

\* C7 as stated: the overall success flag of the batch result is true if
\* and only if at least one per-marketplace outcome is a success.
C7_OverallIffSomeSuccess ==
    (AfterAll /\ ~call_result.raised) => (Batch.success <=> SuccessKeys # {})

\* C7 as amended: whenever at least one per-marketplace outcome is a
\* success, the overall success flag is true.
C7_SomeSuccessImpliesOverall ==
    (AfterAll /\ ~call_result.raised /\ SuccessKeys # {}) => Batch.success

\* a batch with a success and a failure
C7_Witness ==
    /\ AfterAll /\ ~call_result.raised
    /\ SuccessKeys # {} /\ FailureKeys # {}
    /\ Batch.success

\* C8: generate_all_marketplace_content returns a result whose overall
\* success flag is true for every fact set and key list, also when every
\* outcome is a failure and when the list is empty; a failure does not end
\* the loop, every requested key has its outcome.
C8_OverallAlwaysTrue ==
    AfterAll =>
        /\ ~call_result.raised
        /\ Batch.success = TRUE
        /\ \A i \in DOMAIN marketplace_keys : marketplace_keys[i] \in DOMAIN Outcomes

\* every outcome of a batch of several keys is a failure
C8_Witness ==
    /\ AfterAll /\ ~call_result.raised
    /\ Len(marketplace_keys) > 1
    /\ SuccessKeys = {}
    /\ FailureKeys = Range(marketplace_keys)
    /\ Batch.success

\* the empty batch
C8_WitnessEmpty ==
    AfterAll /\ marketplace_keys = <<>> /\ Batch.success /\ DOMAIN Outcomes = {}

\* C10: for unique keys the outcomes map has exactly one entry per
\* requested key, and the entry of a key is what
\* generate_marketplace_content returns for that key alone, whatever the
\* other keys and their order.
C10_OutcomesIndependent ==
    (AfterAll /\ UniqueKeys(marketplace_keys)) =>
        /\ ~call_result.raised
        /\ DOMAIN Outcomes = Range(marketplace_keys)
        /\ Cardinality(DOMAIN Outcomes) = Len(marketplace_keys)
        /\ \A k \in DOMAIN Outcomes :
               Outcomes[k] = GenerateMarketplaceContent(product_info, k, hash_seed).value

\* three keys of which exactly one fails validation: two successes and one
\* failure, the failure not being the last key
C10_Witness ==
    /\ AfterAll /\ UniqueKeys(marketplace_keys) /\ Len(marketplace_keys) = 3
    /\ Cardinality(SuccessKeys) = 2
    /\ Cardinality(FailureKeys) = 1
    /\ \A k \in FailureKeys :
           /\ "validation_errors" \in DOMAIN Outcomes[k]
           /\ marketplace_keys[3] # k

-----------------------------------------------------------------------------
(* Properties of the wizard, checked under SpecApp *)

UiSuccessKeys == {k \in DOMAIN ui.results : ui.results[k].success}

UiFailureKeys == {k \in DOMAIN ui.results : ~ui.results[k].success}

\* C9: for unique selected keys generate_descriptions sorts a batch result
\* three ways by its outcomes.  No success: fatal, an error is shown, it
\* returns False and current_step does not become 3.  A success and a
\* failure: partial, a warning names the failed keys and current_step
\* becomes 3.  No failure: current_step becomes 3 and there is no warning.
C9_ThreeWayClassification ==
    (ui.called_batch /\ UniqueKeys(ui.keys)) =>
        /\ DOMAIN ui.results = Range(ui.keys)
        /\ (UiSuccessKeys = {}) =>
               /\ ui.errors = <<ErrAllFailed>>
               /\ ui.warnings = <<>>
               /\ ui.returned = Some(FALSE)
               /\ session.current_step # 3
        /\ (UiSuccessKeys # {} /\ UiFailureKeys # {}) =>
               /\ ui.errors = <<>>
               /\ Len(ui.warnings) = 1
               /\ ui.warnings[1].n = Cardinality(UiFailureKeys)
               /\ Range(ui.warnings[1].keys) = UiFailureKeys
               /\ session.current_step = 3
               /\ rerun_pending
        /\ (UiFailureKeys = {}) =>
               /\ ui.errors = <<>>
               /\ ui.warnings = <<>>
               /\ session.current_step = 3
               /\ rerun_pending

\* a partial success: one marketplace generated, one failed and was named
C9_Witness ==
    /\ ui.called_batch
    /\ UiSuccessKeys # {} /\ UiFailureKeys # {}
    /\ Len(ui.warnings) = 1
    /\ session.current_step = 3

\* a fatal batch failure
C9_WitnessFatal ==
    /\ ui.called_batch
    /\ UiSuccessKeys = {} /\ Len(ui.keys) > 1
    /\ ui.returned = Some(FALSE)
    /\ session.current_step = 2

\* a full success
C9_WitnessFull ==
    /\ ui.called_batch
    /\ UiFailureKeys = {} /\ Len(ui.keys) > 1
    /\ session.current_step = 3

-----------------------------------------------------------------------------
(* Properties of a repeated call, checked under SpecTwice *)

AfterTwo == last_call = "again"

First == earlier_result.value

Second == call_result.value

\* C11: two calls of generate_marketplace_content with the same fact set
\* and key give the same outcome: both succeed or both fail, and two
\* successes have the same title, description, bullet_points and
\* specifications and the same set of keywords, in whatever order.
C11_SameOutcomeTwice ==
    AfterTwo =>
        /\ ~earlier_result.raised /\ ~call_result.raised
        /\ First.success = Second.success
        /\ First.success =>
               /\ First.title = Second.title
               /\ First.description = Second.description
               /\ First.bullet_points = Second.bullet_points
               /\ First.specifications = Second.specifications
               /\ Range(First.keywords) = Range(Second.keywords)
        /\ ~First.success => First = Second

\* what does hold: everything but the keywords is the same, and so is the
\* set of keywords when the process is the same or no keyword was cut off
C11_SameButKeywordsCut ==
    AfterTwo =>
        /\ ~earlier_result.raised /\ ~call_result.raised
        /\ First.success = Second.success
        /\ First.success =>
               /\ First.title = Second.title
               /\ First.description = Second.description
               /\ First.bullet_points = Second.bullet_points
               /\ First.specifications = Second.specifications
               /\ Len(First.keywords) = Len(Second.keywords)
               /\ Len(First.keywords) < 20 =>
                      Range(First.keywords) = Range(Second.keywords)
        /\ ~First.success => First = Second

\* two successes after a restart whose keyword lists are the same set in
\* another order
C11_WitnessReordered ==
    /\ AfterTwo /\ First.success /\ Second.success
    /\ First.keywords # Second.keywords
    /\ Range(First.keywords) = Range(Second.keywords)

-----------------------------------------------------------------------------
(* Properties of ownership, checked under SpecShare *)

GenerateStep ==
    last_call = "none" /\ last_call' = "generate_all_marketplace_content"

CallerStep ==
    last_call = "generate_all_marketplace_content" /\ last_call' = "outcome modified"

C13_OutcomesIndependentlyOwned ==
    [][CallerStep =>
          /\ product_info' = product_info
          /\ catalog' = catalog
          /\ Cardinality({j \in DOMAIN call_result.value.results :
                 call_result'.value.results[j] # call_result.value.results[j]}) <= 1
          /\ \A j \in DOMAIN catalog :
                 GenerateWithTemplate(product_info', j, catalog'[j], hash_seed)
                     = GenerateWithTemplate(product_info, j, catalog[j], hash_seed)]_vars

\* what does hold: a caller writing to a success whose rule does not ask
\* for specifications, and not to its template, changes that outcome alone
C13_OwnWhenNotShared ==
    [][(CallerStep /\ catalog' = catalog
           /\ \E k \in DOMAIN shares :
                  /\ call_result'.value.results[k] # call_result.value.results[k]
                  /\ shares[k].specifications = "own") =>
          /\ product_info' = product_info
          /\ Cardinality({j \in DOMAIN call_result.value.results :
                 call_result'.value.results[j] # call_result.value.results[j]}) <= 1]_vars

-----------------------------------------------------------------------------
(* Properties of the keywords, checked under Spec *)

\* C14: the keyword list has at most 20 entries, and every entry is
\* lower-case, has no leading or trailing whitespace and is longer than 2.
C14_KeywordsCappedAndClean ==
    Succeeded =>
        /\ Len(TheOutcome.keywords) <= 20
        /\ \A i \in DOMAIN TheOutcome.keywords :
               LET k == TheOutcome.keywords[i]
               IN  /\ Lower(k) = k
                   /\ Strip(k) = k
                   /\ Len(k) > 2

\* what does hold: at most 20 entries, each lower-case, trimmed and not
\* empty, and longer than 2 when the brand has no surrounding whitespace
C14_KeywordsCappedAndTrimmed ==
    Succeeded =>
        /\ Len(TheOutcome.keywords) <= 20
        /\ \A i \in DOMAIN TheOutcome.keywords :
               LET k == TheOutcome.keywords[i]
               IN  /\ Lower(k) = k
                   /\ Strip(k) = k
                   /\ k # <<>>
                   /\ (Strip(BasicInfo.brand_name) = BasicInfo.brand_name) => Len(k) > 2

\* more candidates than 20: the list was cut to 20
C14_WitnessCapped ==
    /\ Succeeded
    /\ Len(TheOutcome.keywords) = 20
    /\ product_info.features = WordyFeatures

\* C15: the keyword list of a success is a set rendered as a sequence: no
\* keyword occurs in it twice, also for a brand with surrounding whitespace.
C15_KeywordsDistinct ==
    Succeeded =>
        \A i, j \in DOMAIN TheOutcome.keywords :
            TheOutcome.keywords[i] = TheOutcome.keywords[j] => i = j

\* what does hold: no keyword occurs twice when the brand has no
\* surrounding whitespace
C15_KeywordsDistinctForTrimmedBrand ==
    (Succeeded /\ Strip(BasicInfo.brand_name) = BasicInfo.brand_name) =>
        \A i, j \in DOMAIN TheOutcome.keywords :
            TheOutcome.keywords[i] = TheOutcome.keywords[j] => i = j


-----------------------------------------------------------------------------
(* Properties of a failing keywords call, checked under Spec *)

\* the keywords call of the one call made raised
KeywordsRaised ==
    GenerateKeywordsCall(BasicInfo.product_name,
                         Get(BasicInfo, "brand_name", <<>>),
                         Get(BasicInfo, "category", <<>>),
                         product_info.features, hash_seed).raised

\* the outcome for the same fact set with a brand that is the text the
\* None brand renders as, for which the keywords call does not raise
OutcomeOtherwise ==
    GenerateMarketplaceContent(
        [product_info EXCEPT !.basic_info.brand_name = Str(NoneStr)],
        TheKey, hash_seed).value

\* C16: if the keywords call raises for a fact set that passed validation
\* and rendered, generate_marketplace_content still returns a success, with
\* an empty keyword list and with title, description, bullet_points and
\* specifications as they would otherwise be.
C16_KeywordErrorGivesEmptyKeywords ==
    (/\ AfterOne /\ TheKey \in CatalogKeys
     /\ ValidateProductInfo(product_info, TheRule) = <<>>
     /\ KeywordsRaised) =>
        /\ ~call_result.raised
        /\ TheOutcome.success
        /\ TheOutcome.keywords = <<>>
        /\ OutcomeOtherwise.success
        /\ OutcomeOtherwise.keywords # <<>>
        /\ TheOutcome.title = OutcomeOtherwise.title
        /\ TheOutcome.description = OutcomeOtherwise.description
        /\ TheOutcome.bullet_points = OutcomeOtherwise.bullet_points
        /\ TheOutcome.specifications = OutcomeOtherwise.specifications

\* a None brand on a marketplace that does not require one: the keywords
\* call raised and the outcome is a success without keywords
C16_Witness ==
    /\ Succeeded
    /\ BasicInfo.brand_name = NoneStr
    /\ KeywordsRaised
    /\ TheOutcome.keywords = <<>>
    /\ TheOutcome.bullet_points # <<>>


-----------------------------------------------------------------------------
(* json.loads, for texts over the characters of JsonAlphabet.  A JSON      *)
(* value is [kind, val]: an object holds its members as <<key, value>>     *)
(* pairs in insertion order, a string its characters, a number its digits. *)

JsonAlphabet == {"{", "}", "\"", ":", ",", "1", " ", "\n", "k", "x"}

JsonSpace == {" ", "\n"}

JsonDigits == {"1"}

\* characters json.loads rejects inside a string
JsonControl == {"\n"}

JsonFail == [ok |-> FALSE]

JsonOk(v, next) == [ok |-> TRUE, value |-> v, next |-> next]

\* the first position from i on that holds no whitespace, Len(s) + 1 if none
SkipSpace(s, i) ==
    LET stops == {j \in i..Len(s) : s[j] \notin JsonSpace}
    IN  IF stops = {} THEN Len(s) + 1
        ELSE CHOOSE j \in stops : \A h \in stops : j <= h

\* a string that opens at position i
ParseString(s, i) ==
    LET quotes == {j \in (i + 1)..Len(s) : s[j] = "\""}
        close == CHOOSE j \in quotes : \A h \in quotes : j <= h
    IN  IF quotes = {} THEN JsonFail
        ELSE IF \E j \in (i + 1)..(close - 1) : s[j] \in JsonControl THEN JsonFail
        ELSE JsonOk([kind |-> "string", val |-> SubSeq(s, i + 1, close - 1)],
                    close + 1)

\* a number that starts at position i
ParseNumber(s, i) ==
    LET stops == {j \in i..Len(s) : s[j] \notin JsonDigits}
        end == IF stops = {} THEN Len(s) + 1
               ELSE CHOOSE j \in stops : \A h \in stops : j <= h
    IN  JsonOk([kind |-> "number", val |-> SubSeq(s, i, end - 1)], end)

\* dict[key] = value on the members of an object: a key met again keeps its
\* place and takes the new value
SetMember(members, key, value) ==
    IF \E n \in DOMAIN members : members[n][1] = key
    THEN [n \in DOMAIN members |->
             IF members[n][1] = key THEN <<key, value>> ELSE members[n]]
    ELSE Append(members, <<key, value>>)

RECURSIVE ParseValue(_, _)
RECURSIVE ParseMembers(_, _, _)

\* the value that starts at position i
ParseValue(s, i) ==
    IF i > Len(s) THEN JsonFail
    ELSE IF s[i] = "\"" THEN ParseString(s, i)
    ELSE IF s[i] \in JsonDigits THEN ParseNumber(s, i)
    ELSE IF s[i] = "{"
    THEN LET first == SkipSpace(s, i + 1)
         IN  IF first > Len(s) THEN JsonFail
             ELSE IF s[first] = "}"
             THEN JsonOk([kind |-> "object", val |-> <<>>], first + 1)
             ELSE ParseMembers(s, first, <<>>)
    ELSE JsonFail

\* the members of an object from the key expected at position i on, up to
\* and including the closing brace
ParseMembers(s, i, members) ==
    IF i > Len(s) \/ s[i] # "\"" THEN JsonFail
    ELSE LET key == ParseString(s, i)
         IN  IF ~key.ok THEN JsonFail
             ELSE LET colon == SkipSpace(s, key.next)
                  IN  IF colon > Len(s) \/ s[colon] # ":" THEN JsonFail
                      ELSE LET value == ParseValue(s, SkipSpace(s, colon + 1))
                           IN  IF ~value.ok THEN JsonFail
                               ELSE LET after == SkipSpace(s, value.next)
                                        now == SetMember(members, key.value.val,
                                                         value.value)
                                    IN  IF after > Len(s) THEN JsonFail
                                        ELSE IF s[after] = "}"
                                        THEN JsonOk([kind |-> "object", val |-> now],
                                                    after + 1)
                                        ELSE IF s[after] = ","
                                        THEN ParseMembers(s, SkipSpace(s, after + 1), now)
                                        ELSE JsonFail

\* json.loads(s): one value with whitespace around it and nothing else, or
\* json.JSONDecodeError
JsonLoads(s) ==
    LET parsed == ParseValue(s, SkipSpace(s, 1))
    IN  IF parsed.ok /\ SkipSpace(s, parsed.next) = Len(s) + 1
        THEN [raised |-> FALSE, value |-> parsed.value]
        ELSE [raised |-> TRUE, value |-> <<"JSONDecodeError">>]

\* s.find(c): the 0-based index of the first c, -1 if there is none
Find(s, c) ==
    LET at == {i \in DOMAIN s : s[i] = c}
    IN  IF at = {} THEN -1 ELSE (CHOOSE i \in at : \A j \in at : i <= j) - 1

\* s.rfind(c): the 0-based index of the last c, -1 if there is none
RFind(s, c) ==
    LET at == {i \in DOMAIN s : s[i] = c}
    IN  IF at = {} THEN -1 ELSE (CHOOSE i \in at : \A j \in at : i >= j) - 1

\* s[start:end] for 0 <= start <= end
Slice(s, start, end) == SubSeq(s, start + 1, Min(end, Len(s)))

-----------------------------------------------------------------------------
(* MergeChain *)

\* a Python dict with str values, as the JSON object of the same content
DictOf(pairs) ==
    [kind |-> "object",
     val |-> [n \in DOMAIN pairs |->
                 <<pairs[n][1], [kind |-> "string", val |-> pairs[n][2]]>>]]

\* lines 111-116: the dict returned for a reply that does not parse
ParseFailure(output) ==
    DictOf(<< << <<"error">>, <<"Failed to parse model output">> >>,
              << <<"raw_output">>, output >> >>)

\* _parse_output without its second stage
ParseOutputDirectOnly(output) ==
    LET direct == JsonLoads(Strip(output))
    IN  IF ~direct.raised THEN direct.value ELSE ParseFailure(output)

\* MergeChain._parse_output
ParseOutput(output) ==
    LET direct == JsonLoads(Strip(output))
        start == Find(output, "{")
        end == RFind(output, "}") + 1
        embedded == JsonLoads(Slice(output, start, end))
    IN  IF ~direct.raised THEN direct.value
        ELSE IF start >= 0 /\ end > start /\ ~embedded.raised THEN embedded.value
        ELSE ParseFailure(output)

\* MergeChain.__call__, the backend being what self.chain.invoke does with
\* the formatted inputs: it raises, or it returns the reply text
MergeCall(invoke) ==
    IF invoke.raised
    THEN Returned([error |-> <<"Error in MergeChain: ">> \o invoke.value])
    ELSE Returned([merged_data |-> ParseOutput(invoke.value)])

-----------------------------------------------------------------------------
(* Calls of the MergeChain: one backend behaviour per run, then a call of  *)
(* _parse_output on the reply or of the whole chain                        *)

\* what a reply may say before its data
ReplyOpenings ==
    {<<>>,
     <<" ">>,
     <<"\n">>,
     <<"x", " ">>,
     <<"x", "{", " ">>,
     <<"}", "x", " ">>}

\* the data of a reply: well-formed, cut short or malformed
ReplyBodies ==
    {<<>>,
     <<"{", "}">>,
     <<"{", "\"", "k", "\"", ":", "1", "}">>,
     <<"{", " ", "\"", "k", "\"", " ", ":", " ", "\"", "x", "\"", " ", "}">>,
     <<"{", "\"", "k", "\"", ":", "{", "}", "}">>,
     <<"{", "\"", "k", "\"", ":", "1", ",", "\"", "k", "\"", ":", "{", "}", "}">>,
     <<"1">>,
     <<"\"", "k", "\"">>,
     <<"{", "\"", "k", "\"", ":", "1">>,
     <<"{", "\"", "k", "\"", "}">>,
     <<"{", "\"", "k", "\"", ":", "\"", "\n", "\"", "}">>,
     <<"{", "}", "{", "}">>,
     <<"{", "\"", "k", "\"", ":", "1", ",", "}">>,
     <<"{", "\"", "x", "}", "\"", ":", "1", "}">>}

\* what a reply may say after its data
ReplyClosings ==
    {<<>>,
     <<" ">>,
     <<" ", "x">>,
     <<"}">>,
     <<" ", "{", "x">>}

Replies ==
    {opening \o body \o closing :
        opening \in ReplyOpenings, body \in ReplyBodies, closing \in ReplyClosings}

\* the errors of the generation backend: what str(e) gives
BackendErrors == {<<"Connection error.">>, <<"Incorrect API key provided">>}

Backends ==
    {[raised |-> TRUE, value |-> e] : e \in BackendErrors}
        \cup {[raised |-> FALSE, value |-> r] : r \in Replies}

InitMerge ==
    /\ hash_seed = 0
    /\ product_info = EmptyDict
    /\ last_call = "none"
    /\ marketplace_keys = <<>>
    /\ call_result = NoCall
    /\ session = EmptyDict
    /\ rerun_pending = FALSE
    /\ ui = EmptyDict
    /\ earlier_result = NoCall
    /\ catalog = MARKETPLACE_TEMPLATES
    /\ shares = EmptyDict
    /\ backend \in Backends
    /\ prompts = <<>>

\* _parse_output(reply), for a backend that replied
CallParseOutput ==
    /\ last_call = "none"
    /\ ~backend.raised
    /\ last_call' = "_parse_output"
    /\ call_result' = Returned(ParseOutput(backend.value))
    /\ UNCHANGED <<backend, prompts,
                   hash_seed, product_info, marketplace_keys, session,
                   rerun_pending, ui, earlier_result, catalog, shares>>

\* MergeChain.__call__(inputs)
CallMerge ==
    /\ last_call = "none"
    /\ last_call' = "__call__"
    /\ call_result' = MergeCall(backend)
    /\ UNCHANGED <<backend, prompts,
                   hash_seed, product_info, marketplace_keys, session,
                   rerun_pending, ui, earlier_result, catalog, shares>>

NextMerge == CallParseOutput \/ CallMerge

SpecMerge == InitMerge /\ [][NextMerge]_vars


-----------------------------------------------------------------------------
(* Properties of the MergeChain, checked under SpecMerge *)

AfterParse == last_call = "_parse_output"

AfterMerge == last_call = "__call__"

Reply == backend.value

\* the positions of the opening braces and of the closing braces of the reply
Opens == {i \in DOMAIN Reply : Reply[i] = "{"}

Closes == {i \in DOMAIN Reply : Reply[i] = "}"}

\* the reply from its first opening brace to its last closing brace, when
\* it has both in this order
HasEmbedded == \E i \in Opens, j \in Closes : i < j

Embedded ==
    SubSeq(Reply, CHOOSE i \in Opens : \A j \in Opens : i <= j,
                  CHOOSE i \in Closes : \A j \in Closes : i >= j)

\* C17: _parse_output returns the direct parse of the trimmed reply when
\* that succeeds; otherwise the parse of the substring from the first "{"
\* to the last "}" of the raw reply when that succeeds; otherwise a record
\* with the reason "Failed to parse model output" and the raw reply
\* unchanged, and nothing else.
C17_TwoStageParse ==
    AfterParse =>
        LET direct == JsonLoads(Strip(Reply))
            second == HasEmbedded /\ ~JsonLoads(Embedded).raised
        IN  /\ ~call_result.raised
            /\ ~direct.raised => call_result.value = direct.value
            /\ (direct.raised /\ second) =>
                   call_result.value = JsonLoads(Embedded).value
            /\ (direct.raised /\ ~second) =>
                   /\ call_result.value.kind = "object"
                   /\ call_result.value.val =
                          << << <<"error">>,
                                [kind |-> "string",
                                 val |-> <<"Failed to parse model output">>] >>,
                             << <<"raw_output">>,
                                [kind |-> "string", val |-> Reply] >> >>

\* a reply with prose around its data: the direct parse fails and the
\* embedded object is returned
C17_Witness ==
    /\ AfterParse
    /\ Reply # <<>> /\ Reply[1] = "x" /\ Reply[Len(Reply)] = "x"
    /\ JsonLoads(Strip(Reply)).raised
    /\ call_result.value = [kind |-> "object",
                            val |-> << << <<"k">>, [kind |-> "number", val |-> <<"1">>] >> >>]

\* a reply that is data with blanks around it is parsed directly
C17_WitnessDirect ==
    /\ AfterParse
    /\ Reply # <<>> /\ Reply[1] = " " /\ Reply[Len(Reply)] = " "
    /\ ~JsonLoads(Strip(Reply)).raised
    /\ call_result.value.kind = "object" /\ call_result.value.val # <<>>

\* a reply with braces that hold no data gives the failure record
C17_WitnessFailure ==
    /\ AfterParse
    /\ HasEmbedded /\ JsonLoads(Embedded).raised
    /\ call_result.value = ParseFailure(Reply)


\* the reply parses neither directly nor between its outer braces
Unparseable ==
    /\ ~backend.raised
    /\ JsonLoads(Strip(Reply)).raised
    /\ ~(HasEmbedded /\ ~JsonLoads(Embedded).raised)

\* the result of __call__ is a merge error: a reason and no merged data
IsMergeError(result) ==
    /\ "error" \in DOMAIN result
    /\ result.error # <<>>
    /\ "merged_data" \notin DOMAIN result

\* C18: __call__ never raises; an error of the generation backend, and a
\* reply that cannot be parsed, give a merge error with a reason and no
\* merged data, and no result carries both merged data and an error.
C18_FailuresAreMergeErrors ==
    AfterMerge =>
        /\ ~call_result.raised
        /\ ~({"error", "merged_data"} \subseteq DOMAIN call_result.value)
        /\ (backend.raised \/ Unparseable) => IsMergeError(call_result.value)

\* what holds of __call__: it never raises, an error of the generation
\* backend gives a merge error, and every reply gives merged data, which
\* for an unparseable reply is the failure record of _parse_output
C18_BackendErrorsAreMergeErrors ==
    AfterMerge =>
        /\ ~call_result.raised
        /\ ~({"error", "merged_data"} \subseteq DOMAIN call_result.value)
        /\ backend.raised => IsMergeError(call_result.value)
        /\ ~backend.raised => DOMAIN call_result.value = {"merged_data"}
        /\ Unparseable => call_result.value.merged_data = ParseFailure(Reply)

\* an unparseable reply came back as merged data
C18_WitnessUnparseable ==
    /\ AfterMerge
    /\ Unparseable
    /\ Reply # <<>>
    /\ call_result.value = [merged_data |-> ParseFailure(Reply)]


-----------------------------------------------------------------------------
(* Calls with a catalog whose rules were edited: MARKETPLACE_TEMPLATES is a *)
(* class attribute, and a rule of it may name a placeholder that            *)
(* _process_template_variables does not produce                             *)

\* generate_marketplace_content, the catalog being templates
GenerateMarketplaceContentIn(templates, info, marketplace_key, seed) ==
    IF marketplace_key \notin DOMAIN templates
    THEN NoTemplate(marketplace_key)
    ELSE GenerateWithTemplate(info, marketplace_key, templates[marketplace_key], seed)

\* placeholders that no variable derivation produces
UnknownPlaceholders == {"color", "size"}

EditedKeys == {"amazon_in", "meesho", "shopify"}

WithTitlePlaceholder(templates, k, p) ==
    [templates EXCEPT ![k].title = @ \o <<Lit(<<" ">>), Var(p)>>]

WithDescriptionPlaceholder(templates, k, p) ==
    [templates EXCEPT ![k].description = @ \o <<Lit(<<" ">>), Var(p)>>]

\* the shipped catalog, and the catalogs with one rule edited in its title
\* template, in its description template, or in both
EditedCatalogs ==
    {MARKETPLACE_TEMPLATES}
        \cup {WithTitlePlaceholder(MARKETPLACE_TEMPLATES, k, p) :
                 k \in EditedKeys, p \in UnknownPlaceholders}
        \cup {WithDescriptionPlaceholder(MARKETPLACE_TEMPLATES, k, p) :
                 k \in EditedKeys, p \in UnknownPlaceholders}
        \cup {WithTitlePlaceholder(
                  WithDescriptionPlaceholder(MARKETPLACE_TEMPLATES, k, p), k, q) :
                 k \in EditedKeys, p \in UnknownPlaceholders,
                 q \in UnknownPlaceholders}

InitEdited ==
    /\ hash_seed \in HashSeeds
    /\ product_info \in ValidationFacts
    /\ last_call = "none"
    /\ marketplace_keys \in {<<key>> : key \in EditedKeys \cup {"flipkart"}}
    /\ call_result = NoCall
    /\ session = EmptyDict
    /\ rerun_pending = FALSE
    /\ ui = EmptyDict
    /\ earlier_result = NoCall
    /\ catalog \in EditedCatalogs
    /\ shares = EmptyDict
    /\ backend = NoBackend
    /\ prompts = <<>>

\* generate_marketplace_content(product_info, key) with the catalog as it is
CallGenerateEdited ==
    /\ last_call = "none"
    /\ last_call' = "generate_marketplace_content"
    /\ call_result' =
           GenerateMarketplaceContentIn(catalog, product_info, marketplace_keys[1],
                                        hash_seed)
    /\ UNCHANGED <<backend, prompts,
                   hash_seed, product_info, marketplace_keys, session,
                   rerun_pending, ui, earlier_result, catalog, shares>>

NextEdited == CallGenerateEdited

SpecEdited == InitEdited /\ [][NextEdited]_vars

-----------------------------------------------------------------------------
(* Properties of rendering with an edited rule, checked under SpecEdited *)

\* the rule the call used
RuleUsed == catalog[TheKey]

\* what _process_template_variables derives for the call
Derived == DOMAIN ProcessTemplateVariables(product_info, RuleUsed)

TitleMissing == Placeholders(RuleUsed.title) \ Derived

DescriptionMissing == Placeholders(RuleUsed.description) \ Derived

\* the outcome is the failure for the missing template variable p
IsMissingVariableFailure(outcome, p) ==
    /\ outcome.success = FALSE
    /\ outcome.error = <<"Missing required template variable: ", "'", p, "'">>
    /\ "validation_errors" \notin DOMAIN outcome

\* C19: if the title template or the description template of the rule
\* names a placeholder the variable derivation did not produce, the
\* outcome for a fact set that passes validation is a failure whose reason
\* is the missing-template-variable error naming such a placeholder, and it
\* has no validation_errors list.
C19_MissingVariableFails ==
    (/\ AfterOne
     /\ ValidateProductInfo(product_info, RuleUsed) = <<>>
     /\ TitleMissing \cup DescriptionMissing # {}) =>
        /\ ~call_result.raised
        /\ \E p \in TitleMissing \cup DescriptionMissing :
               IsMissingVariableFailure(TheOutcome, p)

\* what holds: the outcome is a failure without a validation_errors list;
\* it is the missing-template-variable failure only when the title
\* template renders, and for a title template that does not render it is
\* the failure of the outer handler, which quotes the placeholder
C19_MissingVariableFailsSomehow ==
    (/\ AfterOne
     /\ ValidateProductInfo(product_info, RuleUsed) = <<>>
     /\ TitleMissing \cup DescriptionMissing # {}) =>
        /\ ~call_result.raised
        /\ TheOutcome.success = FALSE
        /\ "validation_errors" \notin DOMAIN TheOutcome
        /\ TitleMissing = {} =>
               \E p \in DescriptionMissing : IsMissingVariableFailure(TheOutcome, p)
        /\ TitleMissing # {} =>
               \E p \in TitleMissing :
                   /\ TheOutcome.error =
                          <<"Unexpected error generating content for ", TheKey,
                            ": ", <<"'", p, "'">> >>
                   /\ TheOutcome.marketplace = TheKey

\* a rule whose title template names an unknown placeholder, a fact set
\* that passes validation: the failure is that of the outer handler
C19_WitnessTitle ==
    /\ AfterOne
    /\ ValidateProductInfo(product_info, RuleUsed) = <<>>
    /\ TitleMissing = {"color"} /\ DescriptionMissing = {}
    /\ ~TheOutcome.success
    /\ "marketplace" \in DOMAIN TheOutcome

\* a rule whose description template names an unknown placeholder
C19_WitnessDescription ==
    /\ AfterOne
    /\ ValidateProductInfo(product_info, RuleUsed) = <<>>
    /\ TitleMissing = {} /\ DescriptionMissing = {"size"}
    /\ IsMissingVariableFailure(TheOutcome, "size")


-----------------------------------------------------------------------------
(* Properties of the steps after validation, checked under Spec *)

\* the fields of the fact set that hold text hold a str, and the features
\* are non-empty strings
WellTyped(info) ==
    /\ \A k \in DOMAIN info.basic_info \ {"price"} : info.basic_info[k] # NoneStr
    /\ \A i \in DOMAIN info.features :
           info.features[i] # NoneStr /\ info.features[i] # <<>>

\* C20: for a catalog marketplace key and a well-typed fact set for which
\* validation returns no errors, generate_marketplace_content returns a
\* success: no step after validation fails the call.
C20_ValidFactsSucceed ==
    (/\ AfterOne /\ TheKey \in CatalogKeys
     /\ WellTyped(product_info)
     /\ ValidateProductInfo(product_info, TheRule) = <<>>) =>
        /\ ~call_result.raised
        /\ TheOutcome.success
        /\ "error" \notin DOMAIN TheOutcome

\* a fact set without the optional fields on a marketplace whose
\* description template names one of them: the default was substituted
C20_Witness ==
    /\ Succeeded
    /\ TheKey = "ajio"
    /\ WellTyped(product_info)
    /\ "material_care" \notin DOMAIN BasicInfo
    /\ "material_care" \in Placeholders(TheRule.description)
    /\ Len(TheOutcome.description) > Len(DefaultMaterialCare)


-----------------------------------------------------------------------------
(* Shape of the outcomes of generate_marketplace_content, checked under Spec *)

ContentFields == {"title", "description", "bullet_points", "keywords"}

\* the outcome is a success with its content and without a reason
IsSuccessVariant(outcome) ==
    /\ outcome.success = TRUE
    /\ ContentFields \cup {"specifications"} \subseteq DOMAIN outcome
    /\ DOMAIN outcome \cap {"error", "validation_errors"} = {}

\* the outcome is a failure with a reason and without content
IsFailureVariant(outcome) ==
    /\ outcome.success = FALSE
    /\ "error" \in DOMAIN outcome
    /\ outcome.error # <<>>
    /\ DOMAIN outcome \cap ContentFields = {}

\* C21: every outcome of generate_marketplace_content is either a success
\* with title, description, bullet_points, keywords and specifications and
\* no error or validation_errors, or a failure with a non-empty reason and
\* none of title, description, bullet_points and keywords; a validation
\* failure carries the full list of validation errors and nothing rendered.
C21_ExactlyOneVariant ==
    AfterOne =>
        /\ ~call_result.raised
        /\ IsSuccessVariant(TheOutcome) \/ IsFailureVariant(TheOutcome)
        /\ ~(IsSuccessVariant(TheOutcome) /\ IsFailureVariant(TheOutcome))
        /\ (TheKey \in CatalogKeys /\ ExpectedErrors(product_info, TheRule) # <<>>) =>
               /\ IsFailureVariant(TheOutcome)
               /\ TheOutcome.validation_errors = ExpectedErrors(product_info, TheRule)
               /\ DOMAIN TheOutcome = {"success", "error", "validation_errors"}

\* a fact set with several things missing: the failure lists all of them
C21_Witness ==
    /\ AfterOne /\ TheKey \in CatalogKeys
    /\ IsFailureVariant(TheOutcome)
    /\ "validation_errors" \in DOMAIN TheOutcome
    /\ Len(TheOutcome.validation_errors) >= 3

\* a success variant
C21_WitnessSuccess ==
    /\ AfterOne
    /\ IsSuccessVariant(TheOutcome)
    /\ TheOutcome.title # <<>>


-----------------------------------------------------------------------------
(* MarketplaceChain and the loop of the orchestrator over it *)

\* one entry of MARKETPLACE_RULES
ChainRule(title, bullets, style, tone, specs, emoji, html, keywords) ==
    [title_max_length |-> title,
     max_bullets |-> bullets,
     description_style |-> style,
     tone |-> tone,
     requires_technical_specs |-> specs,
     allows_emoji |-> emoji,
     allows_html |-> html,
     keywords_important |-> keywords]

\* MarketplaceChain.MARKETPLACE_RULES
MARKETPLACE_RULES ==
    [amazon_in |-> ChainRule(200, Some(5), "features_and_benefits", "professional",
                             TRUE, FALSE, TRUE, TRUE),
     flipkart |-> ChainRule(100, NoneValue, "paragraph", "conversational",
                            TRUE, FALSE, FALSE, TRUE),
     meesho |-> ChainRule(60, Some(3), "simple_points", "simple_hindi_english",
                          FALSE, TRUE, FALSE, FALSE)]

\* default_rules of _get_marketplace_guidelines
DefaultRules ==
    ChainRule(100, Some(5), "standard", "professional", FALSE, FALSE, FALSE, TRUE)

\* MarketplaceChain._get_marketplace_guidelines
GetMarketplaceGuidelines(marketplace_key) ==
    IF marketplace_key \in DOMAIN MARKETPLACE_RULES
    THEN MARKETPLACE_RULES[marketplace_key]
    ELSE DefaultRules

YesNo(flag) == IF flag THEN "Yes" ELSE "No"

\* lines 161-173: the fields of prompt_inputs that come from the key and
\* its guidelines
PromptInputs(marketplace_key, guidelines) ==
         [raised |-> FALSE,
          value |-> [marketplace_key |-> marketplace_key,
                     title_guidelines |->
                         <<"Max ", guidelines.title_max_length,
                           " characters, include brand and key features">>,
                     description_style |-> guidelines.description_style,
                     tone |-> guidelines.tone,
                     requires_tech_specs |->
                         IF guidelines.requires_technical_specs
                         THEN "Required" ELSE "Not required",
                     allows_emoji |-> YesNo(guidelines.allows_emoji),
                     allows_html |-> YesNo(guidelines.allows_html),
                     keywords_important |-> YesNo(guidelines.keywords_important),
                     title_max_length |-> guidelines.title_max_length,
                     bullet_count |-> guidelines.max_bullets]]

\* the error record of MarketplaceChain.__call__
ChainError(marketplace_key, what) ==
    [error |-> <<"Error in MarketplaceChain: ">> \o what,
     marketplace_key |-> marketplace_key]

\* MarketplaceChain.__call__ for inputs with a key and a product_info dict,
\* invoke being what self.chain.invoke does with the prompt: the dict
\* returned, and the prompt if one was handed over
MarketplaceChainCall(marketplace_key, invoke) ==
    LET prompt_inputs == PromptInputs(marketplace_key,
                                      GetMarketplaceGuidelines(marketplace_key))
    IN  IF prompt_inputs.raised
        THEN [result |-> ChainError(marketplace_key, prompt_inputs.value),
              prompted |-> <<>>]
        ELSE [result |-> IF invoke.raised
                         THEN ChainError(marketplace_key, invoke.value)
                         ELSE [k \in {marketplace_key} |-> ParseOutput(invoke.value)],
              prompted |-> <<prompt_inputs.value>>]

RECURSIVE OrchestratorLoop(_, _, _, _)
\* lines 50-62 of the orchestrator: the loop over the marketplaces, the
\* i-th call of the chain meeting the i-th behaviour of the backend
OrchestratorLoop(keys, invokes, results, prompted) ==
    IF keys = <<>> THEN [results |-> results, prompted |-> prompted]
    ELSE LET call == MarketplaceChainCall(Head(keys), Head(invokes))
         IN  OrchestratorLoop(Tail(keys), Tail(invokes),
                              Put(results, Head(keys),
                                  Get(call.result, Head(keys), EmptyDict)),
                              prompted \o call.prompted)

\* the keys that callers ask the chain for: with rules, and without
ChainKeys == {"amazon_in", "flipkart", "meesho", "jiomart"}

MaxChainKeys == 2

ChainKeyLists == UNION {[1..n -> ChainKeys] : n \in 0..MaxChainKeys}

\* the replies of the backend to a content prompt: data, data in prose,
\* and prose
ChainReplies ==
    {<<"{", "\"", "k", "\"", ":", "1", "}">>,
     <<"x", " ", "{", "}", " ", "x">>,
     <<"x">>}

ChainBackends ==
    {[raised |-> TRUE, value |-> <<"Connection error.">>]}
        \cup {[raised |-> FALSE, value |-> r] : r \in ChainReplies}

InitChain ==
    /\ hash_seed = 0
    /\ product_info = EmptyDict
    /\ last_call = "none"
    /\ marketplace_keys \in ChainKeyLists
    /\ call_result = NoCall
    /\ session = EmptyDict
    /\ rerun_pending = FALSE
    /\ ui = EmptyDict
    /\ earlier_result = NoCall
    /\ catalog = MARKETPLACE_TEMPLATES
    /\ shares = EmptyDict
    /\ backend \in [1..Len(marketplace_keys) -> ChainBackends]
    /\ prompts = <<>>

\* MarketplaceChain.__call__ for the first requested key
CallMarketplaceChain ==
    /\ last_call = "none"
    /\ marketplace_keys # <<>>
    /\ last_call' = "MarketplaceChain.__call__"
    /\ LET call == MarketplaceChainCall(marketplace_keys[1], backend[1])
       IN  /\ call_result' = Returned(call.result)
           /\ prompts' = call.prompted
    /\ UNCHANGED <<backend, hash_seed, product_info, marketplace_keys, session,
                   rerun_pending, ui, earlier_result, catalog, shares>>

\* ProductDescriptionOrchestrator._generate_marketplace_content
CallOrchestratorGenerate ==
    /\ last_call = "none"
    /\ last_call' = "_generate_marketplace_content"
    /\ LET loop == OrchestratorLoop(marketplace_keys, backend, EmptyDict, <<>>)
       IN  /\ call_result' = Returned([marketplace_results |-> loop.results])
           /\ prompts' = loop.prompted
    /\ UNCHANGED <<backend, hash_seed, product_info, marketplace_keys, session,
                   rerun_pending, ui, earlier_result, catalog, shares>>

NextChain == CallMarketplaceChain \/ CallOrchestratorGenerate

SpecChain == InitChain /\ [][NextChain]_vars


-----------------------------------------------------------------------------
(* Properties of the MarketplaceChain and of the orchestrator's loop,      *)
(* checked under SpecChain                                                 *)

AfterChain == last_call = "MarketplaceChain.__call__"

AfterOrchestrator == last_call = "_generate_marketplace_content"

ChainKey == marketplace_keys[1]

ChainResult == call_result.value

\* C22, for MarketplaceChain.__call__ (generate_marketplace_content is C1):
\* a request for a key that has no rule yields an error for that key, and
\* the default rules are not used to generate content for it.
C22_NoDefaultForUnknownKey ==
    (AfterChain /\ ChainKey \notin DOMAIN MARKETPLACE_RULES) =>
        /\ ~call_result.raised
        /\ "error" \in DOMAIN ChainResult
        /\ ChainKey \notin DOMAIN ChainResult
        /\ prompts = <<>>

\* what holds: for a key that has no rule the backend is prompted with the
\* default rules, and its reply is returned as the content of that key
C22_DefaultRulesForUnknownKey ==
    (AfterChain /\ ChainKey \notin DOMAIN MARKETPLACE_RULES) =>
        /\ ~call_result.raised
        /\ prompts = <<PromptInputs(ChainKey, DefaultRules).value>>
        /\ ~backend[1].raised =>
               /\ DOMAIN ChainResult = {ChainKey}
               /\ ChainResult[ChainKey] = ParseOutput(backend[1].value)

\* content was generated for jiomart under the default rules
C22_WitnessDefaultUsed ==
    /\ AfterChain
    /\ ChainKey = "jiomart"
    /\ Len(prompts) = 1
    /\ prompts[1].tone = "professional" /\ prompts[1].title_max_length = 100
    /\ DOMAIN ChainResult = {"jiomart"}
    /\ ChainResult["jiomart"].kind = "object"
    /\ ChainResult["jiomart"].val # <<>>
    /\ ChainResult["jiomart"] # ParseFailure(backend[1].value)


-----------------------------------------------------------------------------
(* Properties of the tokens of the keywords, checked under Spec *)

HasSpace(s) == \E i \in DOMAIN s : IsSpace(s[i])

\* C23: every keyword of a success that comes from the product name, the
\* brand, the category or a feature is a single token without whitespace
\* (a two-word brand gives two tokens); only the generic term "best price"
\* holds a space.
C23_KeywordsAreTokens ==
    Succeeded =>
        \A i \in DOMAIN TheOutcome.keywords :
            HasSpace(TheOutcome.keywords[i]) =>
                TheOutcome.keywords[i] =
                    <<"b", "e", "s", "t", " ", "p", "r", "i", "c", "e">>

\* what holds: the product name, the category and the features are
\* tokenized; the brand is added whole, so a keyword with a space is
\* "best price" or the lower-case, trimmed brand
C23_KeywordsAreTokensOrTheBrand ==
    Succeeded =>
        \A i \in DOMAIN TheOutcome.keywords :
            HasSpace(TheOutcome.keywords[i]) =>
                \/ TheOutcome.keywords[i] =
                       <<"b", "e", "s", "t", " ", "p", "r", "i", "c", "e">>
                \/ TheOutcome.keywords[i] = Strip(Lower(BasicInfo.brand_name))

\* a two-word brand came out as one keyword with a space in it
C23_WitnessBrandWhole ==
    /\ Succeeded
    /\ BasicInfo.brand_name = Acme \o <<" ", "C", "o", "r", "p">>
    /\ <<"a", "c", "m", "e", " ", "c", "o", "r", "p">> \in Range(TheOutcome.keywords)
    /\ <<"c", "o", "r", "p">> \notin Range(TheOutcome.keywords)


\* the entries of marketplace_results
Entries == ChainResult.marketplace_results

\* the position of the last request for marketplace k: its chain call is
\* the one whose entry stays
LastRequest(k) ==
    CHOOSE i \in DOMAIN marketplace_keys :
        /\ marketplace_keys[i] = k
        /\ \A j \in DOMAIN marketplace_keys : marketplace_keys[j] = k => j <= i

\* C24: for every requested marketplace whose chain call fails, the entry
\* recorded for it in marketplace_results carries the failure reason; a
\* failure is never recorded as an empty entry.
C24_FailedEntriesCarryReason ==
    AfterOrchestrator =>
        \A k \in Range(marketplace_keys) :
            backend[LastRequest(k)].raised =>
                /\ k \in DOMAIN Entries
                /\ DOMAIN Entries[k] # {}
                /\ "error" \in DOMAIN Entries[k]
                /\ Entries[k].error =
                       ChainError(k, backend[LastRequest(k)].value).error

\* what holds: every requested marketplace has an entry; it is the parsed
\* reply of its chain call, and the empty dict when the chain call failed
C24_FailedEntriesAreEmpty ==
    AfterOrchestrator =>
        /\ DOMAIN Entries = Range(marketplace_keys)
        /\ \A k \in Range(marketplace_keys) :
               IF backend[LastRequest(k)].raised
               THEN DOMAIN Entries[k] = {}
               ELSE Entries[k] = ParseOutput(backend[LastRequest(k)].value)

\* two marketplaces, the chain call of the first failed and that of the
\* second did not: the first has an empty entry
C24_WitnessEmptyEntry ==
    /\ AfterOrchestrator
    /\ Len(marketplace_keys) = 2 /\ marketplace_keys[1] # marketplace_keys[2]
    /\ backend[1].raised /\ ~backend[2].raised
    /\ DOMAIN Entries[marketplace_keys[1]] = {}
    /\ DOMAIN Entries[marketplace_keys[2]] # {}


-----------------------------------------------------------------------------
(* Properties of the catalog against the variable derivation, under Spec *)

\* C25: for every entry of MARKETPLACE_TEMPLATES, every placeholder of its
\* title template and of its description template is a key of the variable
\* map that _process_template_variables builds, so no call for a catalog
\* marketplace fails for a missing template variable.
C25_CatalogPlaceholdersDerived ==
    /\ \A k \in CatalogKeys :
           LET rule == MARKETPLACE_TEMPLATES[k]
           IN  Placeholders(rule.title) \cup Placeholders(rule.description)
                   \subseteq DOMAIN ProcessTemplateVariables(product_info, rule)
    /\ (AfterOne /\ TheKey \in CatalogKeys /\ ~TheOutcome.success) =>
           "validation_errors" \in DOMAIN TheOutcome

\* a call for nykaa, whose description template names the optional fields,
\* for a fact set that has none of them: it rendered
C25_Witness ==
    /\ Succeeded
    /\ TheKey = "nykaa"
    /\ {"usage_instructions", "ingredients"} \subseteq Placeholders(TheRule.description)
    /\ DOMAIN BasicInfo \cap {"usage_instructions", "ingredients"} = {}
    /\ TheOutcome.description # <<>>


-----------------------------------------------------------------------------
(* Properties of the wizard's selection and results, checked under SpecApp *)

\* the keys in selected_marketplaces, none before a selection was made
SelectedKeys ==
    IF session.selected_marketplaces = NoneValue THEN {}
    ELSE Range(session.selected_marketplaces[1])

\* C26: every marketplace key that the selection step puts into
\* selected_marketplaces has a rule in MARKETPLACE_TEMPLATES, so no
\* selection made in the UI fails with "No template found".
C26_SelectableKeysHaveRules ==
    /\ SelectedKeys \subseteq CatalogKeys
    /\ ui.called_batch =>
           \A k \in DOMAIN ui.results :
               ~ui.results[k].success =>
                   ui.results[k].error # <<"No template found for marketplace: ", k>>

\* what holds: every key selected is one of the checkboxes rendered, and a
\* selected key without a rule fails with "No template found"
C26_SelectedKeysAreCheckboxes ==
    /\ SelectedKeys \subseteq Range(MarketplaceCheckboxes)
    /\ ui.called_batch =>
           \A k \in DOMAIN ui.results \ CatalogKeys :
               /\ ~ui.results[k].success
               /\ ui.results[k].error = <<"No template found for marketplace: ", k>>

\* JioMart was ticked, and the batch failed for it with "No template found"
C26_WitnessNoTemplate ==
    /\ "jiomart" \in SelectedKeys
    /\ ui.called_batch
    /\ "jiomart" \in DOMAIN ui.results
    /\ ui.results["jiomart"].error = <<"No template found for marketplace: ", "jiomart">>


\* successful_generations as a dict, empty before the first batch
SuccessfulGenerations ==
    IF session.successful_generations = NoneValue THEN EmptyDict
    ELSE session.successful_generations[1]

\* C27: in every reachable state of the wizard, current_step = 3 implies
\* that successful_generations is not empty: the results step is entered
\* only after a batch in which a selected marketplace succeeded.
C27_ResultsStepHasSuccess ==
    session.current_step = 3 =>
        /\ DOMAIN SuccessfulGenerations # {}
        /\ \A k \in DOMAIN SuccessfulGenerations : SuccessfulGenerations[k].success
        /\ DOMAIN SuccessfulGenerations \subseteq SelectedKeys

\* the results step after a batch in which one marketplace failed
C27_Witness ==
    /\ session.current_step = 3
    /\ Cardinality(SelectedKeys) = 2
    /\ Cardinality(DOMAIN SuccessfulGenerations) = 1


\* the entries of generated_content that are successes
GeneratedSuccesses ==
    [k \in {j \in DOMAIN session.generated_content :
                session.generated_content[j].success} |->
        session.generated_content[k]]

C28_WitnessPartial ==
    /\ ui.called_batch
    /\ DOMAIN GeneratedSuccesses # {}
    /\ DOMAIN GeneratedSuccesses # DOMAIN session.generated_content


-----------------------------------------------------------------------------
(* C29: one batch generation per click *)

\* the run that st.rerun() asks for, computed from the session a run left
RerunAfter(s) == Main(s, NoEvent, hash_seed)

\* C29: each click on "Generate Descriptions" or "Regenerate All" triggers
\* exactly one batch generation: the run that generate_descriptions makes
\* leaves marketplace_form_submitted unset, a run without a click that no
\* st.rerun() asked for generates nothing, and after "Back to Marketplaces"
\* the rerun stays on step 2 and does not generate.
C29_OneBatchPerClick ==
    [][/\ ui'.ran => ~session'.marketplace_form_submitted
       /\ Interact => ~ui'.ran
       /\ ClickBackToMarketplaces =>
              /\ ~RerunAfter(session').ui.ran
              /\ RerunAfter(session').session.current_step = 2]_vars

\* what the code does: the flag, once set, stays set until "Reset Form",
\* and the rerun after "Back to Marketplaces" calls the batch generator and
\* returns to step 3
C29_FlagStaysSetAndBackRegenerates ==
    [][/\ (session.marketplace_form_submitted /\ ~ClickResetForm) =>
              session'.marketplace_form_submitted
       /\ ClickBackToMarketplaces =>
              /\ RerunAfter(session').ui.called_batch
              /\ RerunAfter(session').session.current_step = 3]_vars

\* generate_descriptions has run the batch and moved to step 3, and the flag
\* of the click that led to it is still set
C29_WitnessFlagStillSet ==
    /\ session.current_step = 3
    /\ ui.called_batch
    /\ session.marketplace_form_submitted


-----------------------------------------------------------------------------
(* C30: what _parse_output returns for a reply that is JSON but no object *)

\* what _parse_output returned: call_result of _parse_output, merged_data of
\* __call__
Parsed ==
    IF AfterParse THEN call_result.value ELSE call_result.value.merged_data

ParsedReply == (AfterParse \/ AfterMerge) /\ ~backend.raised

\* C30: for every backend reply, _parse_output returns a JSON object (the
\* facts, or the error record); a reply that parses as a JSON value that is
\* not an object is never returned, by _parse_output or as merged_data.
C30_ParsedIsObject == ParsedReply => Parsed.kind = "object"

\* what the code does: a reply that json.loads accepts whole is returned as
\* it parsed, object or not; the other replies give an object
C30_DirectValueReturnedAsIs ==
    ParsedReply =>
        LET direct == JsonLoads(Strip(Reply))
        IN  IF direct.raised THEN Parsed.kind = "object"
            ELSE Parsed = direct.value

\* the reply 1, returned by __call__ as {"merged_data": 1}
C30_WitnessNumberMerged ==
    /\ AfterMerge
    /\ ~backend.raised
    /\ Parsed = [kind |-> "number", val |-> <<"1">>]

=============================================================================
